---- MODULE Spec2Model ----
(***************************************************************************)
(* Ingestion pipeline of the PLC directory mirror: the boundary-           *)
(* deduplicating poller (src/src/poll.rs), the full-pages filter           *)
(* (src/src/lib.rs), the steady-state loader (src/src/plc_pg.rs) and the   *)
(* backfill-with-catch-up orchestration (src/src/bin/allegedly.rs).        *)
(*                                                                         *)
(* Timestamps (Dt) are integers.  did and cid strings are positive         *)
(* integers, the empty string is 0.  Option<T> is a sequence of length 0   *)
(* (None) or 1 (Some).  A Vec is a sequence.                               *)
(***************************************************************************)
EXTENDS Integers, Sequences, FiniteSets, TLC

\* ---------------------------------------------------------------- bounds
MaxOps == 3        \* operations in the upstream log of the poller runs
MaxPageLen == 3    \* ops in one fetched page of the poller runs
MaxPolls == 3      \* poller iterations explored, upstream keeping its contract
MaxAnyPolls == 2   \* poller iterations explored, upstream sending any page
NumDids == 2       \* distinct dids of the upstream log
MaxFeeds == 3      \* pages a sender other than the poller puts on a channel
MaxReplayLen == 2  \* ops in one page played to the loader
MaxPlays == 3      \* pages played to the loader, replays included
NumWeeks == 2      \* weekly bundles of a backfill run
NumWorkers == 2    \* bundle workers of a backfill run
BundleLen == 2     \* ops in one weekly bundle
CatchUpOps == 2000 \* ops upstream holds beyond the bundles
MaxCatchUpPolls == 2  \* poller iterations explored during catch-up
MaxWeekN == 2      \* weeks either side of the epoch
MaxLinePolls == 2  \* poller iterations explored, bodies with malformed lines
MaxFwdBytes == 4   \* bytes written to one PageForwarder
MaxFwdN == 2       \* largest page size N of a PageForwarder<N>

\* --------------------------------------------------------------- options
None == <<>>
Some(x) == <<x>>
IsSome(o) == Len(o) = 1
Unwrap(o) == o[1]
\* the first Option, whatever the second holds
OptOr_first(a, b) == a

\* Option::or
OptOr(a, b) == IF IsSome(a) THEN a ELSE b

Range(s) == {s[i] : i \in 1..Len(s)}
Last(s) == s[Len(s)]

RECURSIVE Flatten(_)
Flatten(pages) ==
    IF pages = <<>> THEN <<>> ELSE Head(pages) \o Flatten(Tail(pages))

\* ------------------------------------------------------------ domain types
\* struct Op
MkOp(did, cid, at, nullified, operation) ==
    [did |-> did, cid |-> cid, created_at |-> at,
     nullified |-> nullified, operation |-> operation]

\* impl From<&Op> for OpKey
OpKey(op) == [did |-> op.did, cid |-> op.cid]

\* impl From<&Op> for LastOp
LastOpFromOp(op) == [created_at |-> op.created_at, pk |-> <<op.did, op.cid>>]

\* impl From<Dt> for LastOp ("bit of a hack": empty did and cid)
LastOpFromDt(dt) == [created_at |-> dt, pk |-> <<0, 0>>]

\* ExportPage::is_empty
is_empty(page) == Len(page) = 0

\* -------------------------------------------------------- PageBoundaryState
\* capture_nth_last_at: walk backwards, skipping `skips` ops, and push the
\* key of every op while created_at == last_at
RECURSIVE TakeBack(_, _, _)
TakeBack(page, i, last_at) ==
    IF i < 1 \/ page[i].created_at # last_at THEN <<>>
    ELSE <<OpKey(page[i])>> \o TakeBack(page, i - 1, last_at)

\* variant: the keys of the earlier ops at last_at are not captured
capture_nth_last_at_skipped(me, page, last_at, skips) == me

capture_nth_last_at(me, page, last_at, skips) ==
    [me EXCEPT !.keys_at = @ \o TakeBack(page, Len(page) - skips, last_at)]

\* variant: an empty page yields a state, at time 0 and with no keys
PageBoundaryState_new_default(page) ==
    IF page = <<>> THEN Some([last_at |-> 0, keys_at |-> <<>>])
    ELSE LET last_at == Last(page).created_at
             last_key == OpKey(Last(page))
             me == [last_at |-> last_at, keys_at |-> <<last_key>>]
         IN Some(capture_nth_last_at(me, page, last_at, 1))

\* PageBoundaryState::new
PageBoundaryState_new(page) ==
    IF page = <<>> THEN None
    ELSE LET last_at == Last(page).created_at
             last_key == OpKey(Last(page))
             me == [last_at |-> last_at, keys_at |-> <<last_key>>]
         IN Some(capture_nth_last_at(me, page, last_at, 1))

\* length of the leading run of ops with created_at == last_at (take_while)
RECURSIVE LeadingRun(_, _, _)
LeadingRun(page, i, last_at) ==
    IF i > Len(page) \/ page[i].created_at # last_at THEN i - 1
    ELSE LeadingRun(page, i + 1, last_at)

\* variant: the naive filter, every op at last_at is dropped
DedupPage_naive(me, page) ==
    SelectSeq(page, LAMBDA op : op.created_at # me.last_at)

\* Vec::swap_remove: the last element takes the place of the removed one
swap_remove(ops, i) ==
    IF i = Len(ops) THEN SubSeq(ops, 1, Len(ops) - 1)
    ELSE [SubSeq(ops, 1, Len(ops) - 1) EXCEPT ![i] = Last(ops)]

RECURSIVE SwapRemoveAll(_, _)
SwapRemoveAll(ops, to_remove) ==
    IF to_remove = {} THEN ops
    ELSE LET i == CHOOSE x \in to_remove : \A y \in to_remove : y <= x
         IN SwapRemoveAll(swap_remove(ops, i), to_remove \ {i})

\* variant: duplicates removed with swap_remove instead of remove
DedupPage_swap_remove(me, page) ==
    LET r == LeadingRun(page, 1, me.last_at)
    IN SwapRemoveAll(page, {i \in 1..r : OpKey(page[i]) \in Range(me.keys_at)})

\* variant: every op whose key is in keys_at is dropped, whatever its time
DedupPage_by_key(me, page) ==
    SelectSeq(page, LAMBDA op : OpKey(op) \notin Range(me.keys_at))

\* the dedup half of apply_to_next: the page with the previously-seen ops
\* of the leading run removed
DedupPage(me, page) ==
    LET r == LeadingRun(page, 1, me.last_at)
        keep(op) == OpKey(op) \notin Range(me.keys_at)
    IN SelectSeq(SubSeq(page, 1, r), keep) \o SubSeq(page, r + 1, Len(page))

\* variant: the state is reset to the page's last op whether or not time
\* moved forward
apply_to_next_always_reset(me, page) ==
    LET out == DedupPage(me, page)
    IN IF out = <<>>
       THEN [state |-> me, page |-> out, panicked |-> FALSE]
       ELSE [state |-> capture_nth_last_at(
                           [last_at |-> Last(out).created_at,
                            keys_at |-> <<OpKey(Last(out))>>],
                           out, Last(out).created_at, 1),
             page |-> out, panicked |-> FALSE]

\* variant: when time did not move, the keys are those of this page only
apply_to_next_forgetting(me, page) ==
    LET out == DedupPage(me, page)
    IN IF out = <<>>
       THEN [state |-> me, page |-> out, panicked |-> FALSE]
       ELSE LET last_at == Last(out).created_at
                last_key == OpKey(Last(out))
            IN IF last_at >= me.last_at
               THEN [state |-> capture_nth_last_at(
                                   [last_at |-> last_at, keys_at |-> <<last_key>>],
                                   out, last_at, 1),
                     page |-> out, panicked |-> FALSE]
               ELSE [state |-> me, page |-> out, panicked |-> TRUE]

\* PageBoundaryState::apply_to_next: the new state, the page as modified and
\* whether the assert_eq! panicked
apply_to_next(me, page) ==
    LET out == DedupPage(me, page)
    IN IF out = <<>>
       THEN [state |-> me, page |-> out, panicked |-> FALSE]
       ELSE LET last_at == Last(out).created_at
                last_key == OpKey(Last(out))
            IN IF last_at > me.last_at
               THEN [state |-> capture_nth_last_at(
                                   [last_at |-> last_at, keys_at |-> <<last_key>>],
                                   out, last_at, 1),
                     page |-> out, panicked |-> FALSE]
               ELSE IF last_at # me.last_at
               THEN [state |-> me, page |-> out, panicked |-> TRUE]
               ELSE [state |-> capture_nth_last_at(
                                   [me EXCEPT !.keys_at = Append(@, last_key)],
                                   out, last_at, 1),
                     page |-> out, panicked |-> FALSE]

\* ------------------------------------------------------------------- state
VARIABLES
    upstream,        \* the upstream log: ops in upstream order
    main_pc,         \* main: "run" | "await_last_at" | "await_bulk" |
                     \*       "catch_up" | "done" | "panicked" | "crashed"
    prev_last,       \* poll_upstream: Option<LastOp>
    boundary_state,  \* poll_upstream: Option<PageBoundaryState>
    poller_pc,       \* "idle" | "polling" | "awaiting_send" | "failed" | "panicked"
    pending,         \* the page and next_last held while dest.send(page) awaits
    dest,            \* the poller's destination channel: queued pages
    dest_cap,        \* capacity of that channel
    dest_rx_open,    \* its receiver has not been dropped
    polls,           \* pages fetched so far
    fetched,         \* history: the raw pages get_page returned, in order
    bodies,          \* history: the response bodies get_page read, as lines,
                     \*   in the runs whose upstream sends malformed lines
    sent,            \* history: the pages put on dest, in order
    last_iter,       \* history: Option of the last iteration's dedup step
    feeder_open,     \* a producer other than the poller holds a sender of dest
    filter_pc,       \* full_pages: "idle" | "recv" | "sending" | "ok" | "err" | "ended"
    held,            \* the page held while tx.send(page) awaits
    fwd,             \* the filter's output channel: queued pages
    forwarded,       \* history: the pages put on fwd, in order
    consumed,        \* history: how many pages the filter has received
    filter_log,      \* the log line full_pages wrote when it stopped
    bundles,         \* the weekly bundle files: week -> ops in file order
    bundle_err,      \* week -> "none" | "open" | "read": how reading the
                     \*   week's bundle fails
    reset,           \* backfill_to_pg: the reset argument
    notify,          \* the bulk sink was given a one-shot sender
    week_queue,      \* backfill: the weeks no worker has taken yet
    workers,         \* backfill: each worker's position
    week_log,        \* history: the weeks popped, in order, with the worker
    worker_errs,     \* history: the weeks whose worker ended with an error
    backfill_ret,    \* backfill: Option of what it returned
    bulk,            \* the bulk channel: queued bundle pages
    bulk_sent,       \* history: the pages put on bulk, in order, with the week
    bulk_pc,         \* the bulk sink: "idle" | "check" | "unlog" | "drop_idx" |
                     \*   "copy" | "finishing" | "create_idx" | "dids" |
                     \*   "set_logged" | "commit" | "done" | "failed" |
                     \*   "panicked" | "stdout" | "printed"
    txn,             \* backfill_to_pg: Option of the open transaction's view
    schema,          \* store: the committed indexes and unlogged tables
    copy_buf,        \* rows written to COPY IN, in the open transaction
    bulk_last_at,    \* the bulk sink: last_at
    rx_last,         \* the one-shot handoff: Option of the value sent
    notifications,   \* history: how many values were sent on the one-shot
    tasks,           \* mirror: each spawned task's name, its state "running" |
                     \*   "ok" | "err" | "panic" | "cancelled" | "aborted",
                     \*   and whether join_next has returned it
    join_queue,      \* mirror: the ended tasks join_next has not yet returned
    run_pc,          \* mirror run: "idle" | "setup" | "spawning" | "joining" |
                     \*   "ok" | "err_setup" | "err_panic" | "err_join" |
                     \*   "err_task" | "panicked"
    wk_now,          \* Week: what Utc::now().timestamp() reads
    wk_dt,           \* Week: the timestamp of the Dt given
    wk_week,         \* Week: Option of Week::from(dt)
    wk_back,         \* Week: Option of Dt::from(week)
    wk_immutable,    \* Week: Option of week.is_immutable()
    wk_range,        \* Week: Option of a call of Week::range, its bounds
                     \*   and what it returned (None: it panicked)
    pf_N,            \* PageForwarder<N>: the const parameter N
    pf_newlines,     \* PageForwarder.newlines
    pf_bytes,        \* PageForwarder.bytes, one string per byte
    pf_dest,         \* what PageForwarder.dest holds: the `ops` of each
                     \*   ExportPage sent, nothing receiving
    pf_buf,          \* Option of `buf` of the write call in progress
    pf_left,         \* bytes the callers may still hand to write
    operations,      \* store: rows of table operations
    dids,            \* store: rows of table dids
    ops_inserted,    \* pages_to_pg counter
    dids_inserted,   \* pages_to_pg counter
    sink_src,        \* the channel the sink reads: "dest" | "fwd"
    sink_pc,         \* pages_to_pg, pages_to_stdout: "idle" | "recv" | "done"
                     \*   | "failed"
    pages_written    \* history: how many pages the sink has received

confVars == <<upstream, dest_cap, sink_src, bundles, bundle_err, reset,
              notify>>
pollerVars == <<prev_last, boundary_state, poller_pc, pending, polls,
                fetched, bodies, sent, last_iter>>
filterVars == <<filter_pc, held, fwd, forwarded, consumed, filter_log>>
bulkVars == <<week_queue, workers, week_log, worker_errs, backfill_ret, bulk,
              bulk_sent, bulk_pc, txn, schema, copy_buf, bulk_last_at,
              rx_last, notifications>>
mirrorVars == <<tasks, join_queue, run_pc>>
weekVars == <<wk_now, wk_dt, wk_week, wk_back, wk_immutable, wk_range>>
fwdVars == <<pf_N, pf_newlines, pf_bytes, pf_dest, pf_buf, pf_left>>
storeVars == <<operations, dids, ops_inserted, dids_inserted>>
sinkVars == <<sink_pc, pages_written>>
vars == <<upstream, main_pc, prev_last, boundary_state, poller_pc, pending,
          dest, dest_cap, dest_rx_open, polls, fetched, sent, last_iter,
          feeder_open, filter_pc, held, fwd, forwarded, consumed, filter_log,
          week_queue, workers, bulk, bulk_pc, copy_buf, bulk_last_at, rx_last,
          operations, dids, ops_inserted, dids_inserted, sink_src, sink_pc,
          pages_written, bundles, reset, notify, week_log, bulk_sent, txn,
          schema, notifications, tasks, join_queue, run_pc, bundle_err,
          worker_errs, backfill_ret, wk_now, wk_dt, wk_week, wk_back,
          wk_immutable, wk_range, bodies, pf_N, pf_newlines, pf_bytes,
          pf_dest, pf_buf, pf_left>>

\* the process is running: main has neither returned nor panicked
ProcessAlive == main_pc \notin {"done", "panicked", "crashed"}

\* ---------------------------------------------------------------- upstream
\* the k-th op of an upstream log whose createdAt values are ats
UpstreamOp(k, at) == MkOp(((k - 1) % NumDids) + 1, k, at, FALSE, k)

\* upstream logs: distinct (did, cid), non-decreasing createdAt; the first
\* op is at time 1 and each next op at the same time or one tick later
UpstreamLogs ==
    {[k \in 1..MaxOps |-> UpstreamOp(k, ats[k])] :
        ats \in {f \in [1..MaxOps -> 1..MaxOps] :
                    /\ f[1] = 1
                    /\ \A k \in 1..(MaxOps - 1) :
                          f[k + 1] \in {f[k], f[k] + 1}}}

\* the ops of log at the indices S, in log order
RECURSIVE PickOps(_, _, _)
PickOps(log, S, i) ==
    IF i > Len(log) THEN <<>>
    ELSE (IF i \in S THEN <<log[i]>> ELSE <<>>) \o PickOps(log, S, i + 1)

\* GET <base>/export?after=...: a page lists, in upstream order, ops of the
\* log with createdAt at or after `after` (all ops without the parameter)
ExportPages(log, after) ==
    LET eligible == {i \in 1..Len(log) :
                        after = None \/ log[i].created_at >= Unwrap(after)}
    IN {PickOps(log, S, 1) :
          S \in {T \in SUBSET eligible : Cardinality(T) <= MaxPageLen}}

\* an upstream that ignores the `after` parameter: a page lists ops from
\* anywhere in the log, ops older than the ones already fetched included
AnyPages(log) == ExportPages(log, None)

\* the request URL of poll_upstream: the `after` pair, when prev_last is known
\* (to_rfc3339 prints the timestamp at full precision)
RequestAfter(pl) == IF IsSome(pl) THEN Some(Unwrap(pl).created_at) ELSE None

\* a line of a response body: the JSON of an op, nothing, or text that
\* serde_json does not parse as an Op
OpLine(op) == [kind |-> "op", op |-> Some(op)]
BlankLine == [kind |-> "blank", op |-> None]
JunkLine == [kind |-> "junk", op |-> None]

\* serde_json::from_str::<Op>(s).ok()
from_str(line) == IF line.kind = "op" THEN line.op ELSE None

\* variant: map_while, the lines after the first one that does not parse are
\* lost with it
get_page_until_malformed(body) ==
    LET bad == {i \in 1..Len(body) : ~IsSome(from_str(body[i]))}
        n == IF bad = {} THEN Len(body)
             ELSE (CHOOSE i \in bad : \A j \in bad : i <= j) - 1
    IN [i \in 1..n |-> Unwrap(from_str(body[i]))]

\* get_page: split('\n'), filter_map over from_str, collect (trim() takes
\* white space off the two ends of the text, lines that hold no op)
get_page(body) ==
    LET parsed == SelectSeq(body, LAMBDA line : IsSome(from_str(line)))
    IN [i \in 1..Len(parsed) |-> Unwrap(from_str(parsed[i]))]

\* the body of a page with every line well-formed
WellFormed(page) == [i \in 1..Len(page) |-> OpLine(page[i])]

\* what an upstream puts between two ops when it sends lines that hold none
NoiseRuns == {<<BlankLine>>, <<JunkLine>>, <<JunkLine, BlankLine>>}

\* the pages of an upstream that leaves no op out: the first n ops of the log
\* at or after `after`
NextPages(log, after) ==
    {page \in ExportPages(log, after) :
        \A i \in 1..Len(log) :
            /\ after = None \/ log[i].created_at >= Unwrap(after)
            /\ page # <<>>
            /\ log[i].cid < Last(page).cid
            => \E j \in 1..Len(page) : page[j] = log[i]}

\* the body of a page with such a run before every op and after the last
RECURSIVE Noisy(_, _)
Noisy(page, noise) ==
    IF page = <<>> THEN noise
    ELSE noise \o <<OpLine(Head(page))>> \o Noisy(Tail(page), noise)

\* the bodies of those pages, well-formed and with such lines
Bodies(log, after) ==
    UNION {{WellFormed(page)} \cup {Noisy(page, noise) : noise \in NoiseRuns} :
           page \in NextPages(log, after)}

\* ------------------------------------------------------------------ poller
PollerAlive == poller_pc \in {"polling", "awaiting_send"}

\* one iteration of the loop of poll_upstream, up to and including try_send
PollIteration(page, max_polls) ==
    /\ ProcessAlive
    /\ poller_pc = "polling"
    /\ polls < max_polls
    /\ LET next_last == IF page = <<>> THEN None
                        ELSE Some(LastOpFromOp(Last(page)))
           r == IF IsSome(boundary_state)
                THEN apply_to_next(Unwrap(boundary_state), page)
                ELSE [state |-> None, page |-> page, panicked |-> FALSE]
       IN /\ polls' = polls + 1
          /\ fetched' = Append(fetched, page)
          /\ last_iter' = Some([pre |-> boundary_state, raw |-> page,
                                out |-> r.page, panicked |-> r.panicked])
          /\ boundary_state' = IF IsSome(boundary_state) THEN Some(r.state)
                               ELSE PageBoundaryState_new(page)
          /\ IF r.panicked
             THEN /\ poller_pc' = "panicked"
                  /\ UNCHANGED <<prev_last, pending, dest, sent>>
             ELSE IF is_empty(r.page)
             THEN /\ prev_last' = OptOr(next_last, prev_last)
                  /\ UNCHANGED <<poller_pc, pending, dest, sent>>
             ELSE IF ~dest_rx_open
             THEN /\ poller_pc' = "failed"
                  /\ UNCHANGED <<prev_last, pending, dest, sent>>
             ELSE IF Len(dest) >= dest_cap
             THEN /\ poller_pc' = "awaiting_send"
                  /\ pending' = Some([page |-> r.page, next_last |-> next_last])
                  /\ UNCHANGED <<prev_last, dest, sent>>
             ELSE /\ dest' = Append(dest, r.page)
                  /\ sent' = Append(sent, r.page)
                  /\ prev_last' = OptOr(next_last, prev_last)
                  /\ UNCHANGED <<poller_pc, pending>>
    /\ UNCHANGED <<main_pc, dest_rx_open, feeder_open>>
    /\ UNCHANGED <<confVars, mirrorVars, weekVars, fwdVars, filterVars, bulkVars, storeVars, sinkVars>>

\* the upstream keeps its contract
PollUpstream ==
    \E page \in ExportPages(upstream, RequestAfter(prev_last)) :
        PollIteration(page, MaxPolls) /\ UNCHANGED bodies

\* the upstream ignores `after`
PollAnyUpstream ==
    \E page \in AnyPages(upstream) :
        PollIteration(page, MaxAnyPolls) /\ UNCHANGED bodies

\* the upstream keeps its contract but for lines that hold no op
PollLines ==
    \E body \in Bodies(upstream, RequestAfter(prev_last)) :
        /\ PollIteration(get_page(body), MaxLinePolls)
        /\ bodies' = Append(bodies, body)

\* ops that share keys across timestamps, and the pages made of them in any
\* order
DedupOps == {MkOp(k, k, at, FALSE, at) : k \in 1..2, at \in 1..2}
DedupPages == UNION {[1..n -> DedupOps] : n \in 0..3}

\* the iteration after the first, over any page
PollDedup ==
    /\ Len(fetched) = 1
    /\ \E page \in DedupPages :
          PollIteration(page, MaxAnyPolls) /\ UNCHANGED bodies

\* a full channel makes the poller drop the page and go on
SendAwaited_dropping ==
    /\ ProcessAlive
    /\ poller_pc = "awaiting_send"
    /\ prev_last' = OptOr(Unwrap(pending).next_last, prev_last)
    /\ pending' = None
    /\ poller_pc' = "polling"
    /\ UNCHANGED <<dest, sent>>
    /\ UNCHANGED <<boundary_state, polls, fetched, bodies, last_iter>>
    /\ UNCHANGED <<main_pc, dest_rx_open, feeder_open>>
    /\ UNCHANGED <<confVars, mirrorVars, weekVars, fwdVars, filterVars, bulkVars,
                   storeVars, sinkVars>>

\* dest.send(page).await completes after the channel was full
SendAwaited ==
    /\ ProcessAlive
    /\ poller_pc = "awaiting_send"
    /\ IF ~dest_rx_open
       THEN /\ poller_pc' = "failed"
            /\ pending' = None
            /\ UNCHANGED <<prev_last, dest, sent>>
       ELSE /\ Len(dest) < dest_cap
            /\ dest' = Append(dest, Unwrap(pending).page)
            /\ sent' = Append(sent, Unwrap(pending).page)
            /\ prev_last' = OptOr(Unwrap(pending).next_last, prev_last)
            /\ pending' = None
            /\ poller_pc' = "polling"
    /\ UNCHANGED <<boundary_state, polls, fetched, bodies, last_iter>>
    /\ UNCHANGED <<main_pc, dest_rx_open, feeder_open>>
    /\ UNCHANGED <<confVars, mirrorVars, weekVars, fwdVars, filterVars, bulkVars, storeVars, sinkVars>>

\* get_page(url).await? returns an error (transport, status)
GetPageFails ==
    /\ ProcessAlive
    /\ poller_pc = "polling"
    /\ poller_pc' = "failed"
    /\ UNCHANGED <<prev_last, boundary_state, pending, polls, fetched, bodies, sent,
                   last_iter>>
    /\ UNCHANGED <<main_pc, dest, dest_rx_open, feeder_open>>
    /\ UNCHANGED <<confVars, mirrorVars, weekVars, fwdVars, filterVars, bulkVars, storeVars, sinkVars>>

\* ------------------------------------------------------- full-pages filter
FULL_PAGE_MIN == 900
SIX_HOURS == 21600
FWD_CHANNEL_CAP == 1

\* every sender of dest has been dropped
DestSendersGone == ~PollerAlive /\ ~feeder_open

\* chrono::Utc::now() when a small page arrives: the last op is six hours
\* old, or older
Clock(page) ==
    IF page = <<>> THEN {0}
    ELSE {Last(page).created_at + SIX_HOURS,
          Last(page).created_at + SIX_HOURS + 1}

\* the line full_pages logs for a small page
FinalPageLog(page, now) ==
    IF page = <<>> THEN "info: empty final page"
    ELSE IF now - Last(page).created_at <= SIX_HOURS
    THEN "info: final page"
    ELSE "warn: small page, but old"

\* variant: tx.try_send(page), the page is lost when the channel is full
Forward_try_send(page) ==
    IF Len(fwd) < FWD_CHANNEL_CAP
    THEN /\ fwd' = Append(fwd, page)
         /\ forwarded' = Append(forwarded, page)
         /\ UNCHANGED <<filter_pc, held>>
    ELSE UNCHANGED <<filter_pc, held, fwd, forwarded>>

\* tx.send(page).await, up to the point where it has to wait
Forward(page) ==
    IF Len(fwd) < FWD_CHANNEL_CAP
    THEN /\ fwd' = Append(fwd, page)
         /\ forwarded' = Append(forwarded, page)
         /\ UNCHANGED <<filter_pc, held>>
    ELSE /\ filter_pc' = "sending"
         /\ held' = Some(page)
         /\ UNCHANGED <<fwd, forwarded>>

\* the filter returns: rx and tx are dropped, pages still queued on rx with
\* them
FilterReturns(result, log) ==
    /\ filter_pc' = result
    /\ filter_log' = log
    /\ dest' = <<>>
    /\ dest_rx_open' = FALSE
    /\ UNCHANGED <<held, fwd, forwarded>>

\* variant: if n <= 900
small_page_le(n) == n <= FULL_PAGE_MIN

\* if n < 900
small_page(n) == n < FULL_PAGE_MIN

\* full_pages (lib.rs): rx.recv() yields a page
full_pages_recv ==
    /\ ProcessAlive
    /\ filter_pc = "recv"
    /\ dest # <<>>
    /\ consumed' = consumed + 1
    /\ LET page == Head(dest)
       IN IF small_page(Len(page))
          THEN \E now \in Clock(page) :
                  FilterReturns("ok", FinalPageLog(page, now))
          ELSE /\ dest' = Tail(dest)
               /\ Forward(page)
               /\ UNCHANGED <<dest_rx_open, filter_log>>
    /\ UNCHANGED <<main_pc, feeder_open>>
    /\ UNCHANGED <<confVars, mirrorVars, weekVars, fwdVars, pollerVars, bulkVars, storeVars, sinkVars>>

\* tx.send(page).await completes after the output channel was full
full_pages_send ==
    /\ ProcessAlive
    /\ filter_pc = "sending"
    /\ Len(fwd) < FWD_CHANNEL_CAP
    /\ fwd' = Append(fwd, Unwrap(held))
    /\ forwarded' = Append(forwarded, Unwrap(held))
    /\ held' = None
    /\ filter_pc' = "recv"
    /\ UNCHANGED <<consumed, filter_log>>
    /\ UNCHANGED <<main_pc, dest, dest_rx_open, feeder_open>>
    /\ UNCHANGED <<confVars, mirrorVars, weekVars, fwdVars, pollerVars, bulkVars, storeVars, sinkVars>>

\* variant: Ok(()) after the loop
full_pages_closed_ok ==
    /\ ProcessAlive
    /\ filter_pc = "recv"
    /\ dest = <<>>
    /\ DestSendersGone
    /\ FilterReturns("ok", "")
    /\ UNCHANGED consumed
    /\ UNCHANGED <<main_pc, feeder_open>>
    /\ UNCHANGED <<confVars, mirrorVars, weekVars, fwdVars, pollerVars, bulkVars, storeVars, sinkVars>>

\* full_pages (lib.rs): rx.recv() yields None, every sender was dropped
full_pages_closed ==
    /\ ProcessAlive
    /\ filter_pc = "recv"
    /\ dest = <<>>
    /\ DestSendersGone
    /\ FilterReturns("err", "ran out of source material, sender closed")
    /\ UNCHANGED consumed
    /\ UNCHANGED <<main_pc, feeder_open>>
    /\ UNCHANGED <<confVars, mirrorVars, weekVars, fwdVars, pollerVars, bulkVars, storeVars, sinkVars>>

\* full_pages (bin/allegedly.rs): rx.recv() yields a page; the task forwards
\* it while page.ops.len() > 900 and ends otherwise
local_full_pages_recv ==
    /\ ProcessAlive
    /\ filter_pc = "recv"
    /\ dest # <<>>
    /\ consumed' = consumed + 1
    /\ LET page == Head(dest)
       IN IF Len(page) > FULL_PAGE_MIN
          THEN /\ dest' = Tail(dest)
               /\ Forward(page)
               /\ UNCHANGED <<dest_rx_open, filter_log>>
          ELSE FilterReturns("ended", "")
    /\ UNCHANGED <<main_pc, feeder_open>>
    /\ UNCHANGED <<confVars, mirrorVars, weekVars, fwdVars, pollerVars, bulkVars, storeVars, sinkVars>>

\* full_pages (bin/allegedly.rs): rx.recv() yields None, the task ends
local_full_pages_closed ==
    /\ ProcessAlive
    /\ filter_pc = "recv"
    /\ dest = <<>>
    /\ DestSendersGone
    /\ FilterReturns("ended", "")
    /\ UNCHANGED consumed
    /\ UNCHANGED <<main_pc, feeder_open>>
    /\ UNCHANGED <<confVars, mirrorVars, weekVars, fwdVars, pollerVars, bulkVars, storeVars, sinkVars>>

\* every sender of fwd has been dropped: the filter has returned
FilterGone == filter_pc \in {"ok", "err", "ended"}

\* ------------------------------------------------------------------- sinks
\* the channel the sink was given
SinkSource == IF sink_src = "fwd" THEN fwd ELSE dest

SinkSendersGone == IF sink_src = "fwd" THEN FilterGone ELSE DestSendersGone

\* rx.recv() takes the first queued page
SinkPop ==
    IF sink_src = "fwd"
    THEN /\ fwd' = Tail(fwd)
         /\ UNCHANGED <<dest, dest_rx_open>>
    ELSE /\ dest' = Tail(dest)
         /\ UNCHANGED <<fwd, dest_rx_open>>

\* the sink returns and drops rx
SinkDrop ==
    IF sink_src = "fwd"
    THEN UNCHANGED <<fwd, dest, dest_rx_open>>
    ELSE /\ dest_rx_open' = FALSE
         /\ UNCHANGED <<fwd, dest>>

\* variant: ON CONFLICT (did) do nothing
Conflicts_on_did(keys, page, i, no_repeat) ==
    \/ page[i].did \in {k.did : k \in keys}
    \/ \E j \in 1..(i - 1) : page[j].did = page[i].did

\* INSERT INTO operations ... ON CONFLICT do nothing: the i-th op of the page
\* conflicts when its (did, cid) is among keys, the keys of the rows that were
\* there before the page, or is the key of a row an earlier op of the page
\* inserted (none is when no key repeats in the page)
Conflicts(keys, page, i, no_repeat) ==
    \/ OpKey(page[i]) \in keys
    \/ /\ ~no_repeat
       /\ \E j \in 1..(i - 1) : OpKey(page[j]) = OpKey(page[i])

\* variant: ON CONFLICT (did, cid) DO UPDATE, the row of a key is the last
\* op written with it
WritePage_upsert(st, page) ==
    LET page_keys == {OpKey(page[i]) : i \in 1..Len(page)}
        last_of(k) == CHOOSE i \in 1..Len(page) :
                         /\ OpKey(page[i]) = k
                         /\ \A j \in 1..Len(page) :
                               OpKey(page[j]) = k => j <= i
        kept == {r \in st.operations : OpKey(r) \notin page_keys}
        new_dids == {page[i].did : i \in 1..Len(page)} \ st.dids
    IN [operations |-> kept \cup {page[last_of(k)] : k \in page_keys},
        dids |-> st.dids \cup new_dids,
        ops_inserted |-> st.ops_inserted + Len(page),
        dids_inserted |-> st.dids_inserted + Cardinality(new_dids)]

\* the statements of one page's transaction: the loop over page.ops with
\* both INSERT ... ON CONFLICT do nothing, and the rows each execute reports
WritePage(st, page) ==
    LET keys == {OpKey(r) : r \in st.operations}
        page_keys == {OpKey(page[i]) : i \in 1..Len(page)}
        no_repeat == Cardinality(page_keys) = Len(page)
        inserted == {i \in 1..Len(page) :
                        ~Conflicts(keys, page, i, no_repeat)}
        new_dids == {page[i].did : i \in 1..Len(page)} \ st.dids
    IN [operations |-> st.operations \cup {page[i] : i \in inserted},
        dids |-> st.dids \cup new_dids,
        ops_inserted |-> st.ops_inserted + Cardinality(inserted),
        dids_inserted |-> st.dids_inserted + Cardinality(new_dids)]

Store == [operations |-> operations, dids |-> dids,
          ops_inserted |-> ops_inserted, dids_inserted |-> dids_inserted]

\* the loader's transaction for one page, committed
CommitPage(page) ==
    LET st == WritePage(Store, page)
    IN /\ operations' = st.operations
       /\ dids' = st.dids
       /\ ops_inserted' = st.ops_inserted
       /\ dids_inserted' = st.dids_inserted

\* pages_to_pg: pages.recv() yields a page; it is written and committed
PagesToPgRecv ==
    /\ ProcessAlive
    /\ sink_pc = "recv"
    /\ SinkSource # <<>>
    /\ CommitPage(Head(SinkSource))
    /\ SinkPop
    /\ pages_written' = pages_written + 1
    /\ UNCHANGED <<filter_pc, held, forwarded, consumed, filter_log>>
    /\ UNCHANGED <<main_pc, feeder_open, sink_pc>>
    /\ UNCHANGED <<confVars, mirrorVars, weekVars, fwdVars, pollerVars, bulkVars>>

\* the statements of a page run on the client, outside a transaction: what
\* they wrote stays
Rollback_autocommit(committed, view) == view

\* the transaction of a page is dropped without commit: the store is what
\* was committed before it
Rollback(committed, view) == committed

\* pages_to_pg: client.transaction(), one of the executes after the first k
\* ops of the page, or tx.commit() returns an error; `?` returns it, which
\* drops the transaction and rx
PagesToPgFails ==
    /\ ProcessAlive
    /\ sink_pc = "recv"
    /\ SinkSource # <<>>
    /\ \E k \in 0..Len(Head(SinkSource)) :
          LET view == WritePage(Store, SubSeq(Head(SinkSource), 1, k))
              st == Rollback(Store, view)
          IN /\ operations' = st.operations
             /\ dids' = st.dids
             /\ ops_inserted' = st.ops_inserted
             /\ dids_inserted' = st.dids_inserted
    /\ sink_pc' = "failed"
    /\ IF sink_src = "fwd"
       THEN /\ fwd' = Tail(fwd)
            /\ UNCHANGED <<dest, dest_rx_open>>
       ELSE /\ dest' = Tail(dest)
            /\ dest_rx_open' = FALSE
            /\ UNCHANGED fwd
    /\ UNCHANGED <<filter_pc, held, forwarded, consumed, filter_log>>
    /\ UNCHANGED <<main_pc, feeder_open, pages_written>>
    /\ UNCHANGED <<confVars, mirrorVars, weekVars, fwdVars, pollerVars, bulkVars>>

\* pages_to_pg: pages.recv() yields None (every sender dropped): Ok
PagesToPgEnd ==
    /\ ProcessAlive
    /\ sink_pc = "recv"
    /\ SinkSource = <<>>
    /\ SinkSendersGone
    /\ sink_pc' = "done"
    /\ SinkDrop
    /\ UNCHANGED <<filter_pc, held, forwarded, consumed, filter_log>>
    /\ UNCHANGED <<main_pc, feeder_open, pages_written>>
    /\ UNCHANGED <<confVars, mirrorVars, weekVars, fwdVars, pollerVars, bulkVars, storeVars>>

\* pages_to_stdout: rx.recv() yields a page; its ops are printed
PagesToStdoutRecv ==
    /\ ProcessAlive
    /\ sink_pc = "recv"
    /\ SinkSource # <<>>
    /\ SinkPop
    /\ pages_written' = pages_written + 1
    /\ UNCHANGED <<filter_pc, held, forwarded, consumed, filter_log>>
    /\ UNCHANGED <<main_pc, feeder_open, sink_pc>>
    /\ UNCHANGED <<confVars, mirrorVars, weekVars, fwdVars, pollerVars, bulkVars, storeVars>>

\* pages_to_stdout: rx.recv() yields None: Ok
PagesToStdoutEnd ==
    /\ ProcessAlive
    /\ sink_pc = "recv"
    /\ SinkSource = <<>>
    /\ SinkSendersGone
    /\ sink_pc' = "done"
    /\ SinkDrop
    /\ UNCHANGED <<filter_pc, held, forwarded, consumed, filter_log>>
    /\ UNCHANGED <<main_pc, feeder_open, pages_written>>
    /\ UNCHANGED <<confVars, mirrorVars, weekVars, fwdVars, pollerVars, bulkVars, storeVars>>

\* ----------------------------------------------------------- bulk backfill
BULK_CHANNEL_CAP == 32
CATCHUP_CHANNEL_CAP == 256
BUNDLE_PAGE_LEN == 10000
EXPORT_PAGE_CAP == 1000

\* source_workers.unwrap_or(1): the workers of a run over a local folder
DIR_SOURCE_WORKERS == 1

\* the upstream log of a backfill run: the ops of the weekly bundles first,
\* then the ops no bundle holds yet; two ops to a timestamp
CatchUpLog ==
    [k \in 1..(NumWeeks * BundleLen + CatchUpOps) |->
        UpstreamOp(k, (k + 1) \div 2)]

RECURSIVE SumTo(_, _)
SumTo(lens, n) == IF n = 0 THEN 0 ELSE lens[n] + SumTo(lens, n - 1)

\* the bundle files of a log whose weeks hold lens[w] ops each
BundlesOf(log, lens) ==
    LET start(w) == SumTo(lens, w - 1)
    IN [w \in DOMAIN lens |-> SubSeq(log, start(w) + 1, start(w) + lens[w])]

\* the lines of the bundle of week w
Bundle(w) == bundles[w]

\* the chunks of the bundle, the last one first
WeekPages_reversed(w) ==
    LET ops == Bundle(w)
        n == (Len(ops) + BUNDLE_PAGE_LEN - 1) \div BUNDLE_PAGE_LEN
    IN [i \in 1..n |->
          SubSeq(ops, (n - i) * BUNDLE_PAGE_LEN + 1,
                 IF (n - i + 1) * BUNDLE_PAGE_LEN < Len(ops)
                 THEN (n - i + 1) * BUNDLE_PAGE_LEN
                 ELSE Len(ops))]

\* week_to_pages: try_chunks(10000) over the lines of the bundle
WeekPages(w) ==
    LET ops == Bundle(w)
        n == (Len(ops) + BUNDLE_PAGE_LEN - 1) \div BUNDLE_PAGE_LEN
    IN [i \in 1..n |->
          SubSeq(ops, (i - 1) * BUNDLE_PAGE_LEN + 1,
                 IF i * BUNDLE_PAGE_LEN < Len(ops) THEN i * BUNDLE_PAGE_LEN
                 ELSE Len(ops))]

sourceFrame == <<bulk_pc, txn, schema, copy_buf, bulk_last_at, rx_last,
                 notifications>>

\* reader_for: a missing file is opened as an empty one
ReaderFor_lenient(week) == TRUE

\* reader_for: TRUE when File::open, or the GET and error_for_status, succeed
ReaderFor(week) == bundle_err[week] /= "open"

\* the chunks try_chunks yields before the lines end: all of them, or, when
\* reading fails at the end of the data, the full ones only (the lines of
\* the unfinished chunk go with the error)
ReadPages(week) ==
    IF bundle_err[week] = "read"
    THEN SelectSeq(WeekPages(week), LAMBDA p : Len(p) = BUNDLE_PAGE_LEN)
    ELSE WeekPages(week)

\* the receiver of the bulk channel is dropped when its task ends early
BulkRxOpen == bulk_pc \notin {"failed", "panicked"}

\* the worker of `week` ends with the error of week_to_pages
WorkerFails(w, week, why) ==
    /\ workers' = [workers EXCEPT ![w] =
                      [pc |-> "failed", week |-> week, next |-> 0]]
    /\ worker_errs' = Append(worker_errs,
                             [worker |-> w, week |-> week, why |-> why])

\* week_to_pages up to its first send: the worker's next position
WeekOpened(w, week) ==
    IF ~ReaderFor(week) THEN WorkerFails(w, week, "open")
    ELSE IF ReadPages(week) /= <<>>
    THEN /\ workers' = [workers EXCEPT ![w] =
                           [pc |-> "send", week |-> week, next |-> 1]]
         /\ UNCHANGED worker_errs
    ELSE IF bundle_err[week] = "read" THEN WorkerFails(w, week, "read")
    ELSE /\ workers' = [workers EXCEPT ![w] =
                           [pc |-> "pop", week |-> week, next |-> 1]]
         /\ UNCHANGED worker_errs

\* backfill: a worker pops a week off the shared queue, two weeks at a time
WorkerPop_skipping(w) ==
    /\ ProcessAlive
    /\ workers[w].pc = "pop"
    /\ IF week_queue = <<>>
       THEN /\ workers' = [workers EXCEPT ![w].pc = "done"]
            /\ UNCHANGED <<week_queue, week_log, worker_errs>>
       ELSE /\ week_queue' = (IF Len(week_queue) > 1
                              THEN Tail(Tail(week_queue)) ELSE <<>>)
            /\ week_log' = Append(week_log,
                                  [worker |-> w, week |-> Head(week_queue)])
            /\ WeekOpened(w, Head(week_queue))
    /\ UNCHANGED <<bulk, bulk_sent, backfill_ret, sourceFrame>>
    /\ UNCHANGED <<main_pc, dest, dest_rx_open, feeder_open>>
    /\ UNCHANGED <<confVars, mirrorVars, weekVars, fwdVars, pollerVars, filterVars, storeVars,
                   sinkVars>>

\* backfill: a worker pops the next week off the shared queue and opens its
\* bundle, or ends when the queue is empty
WorkerPop(w) ==
    /\ ProcessAlive
    /\ workers[w].pc = "pop"
    /\ IF week_queue = <<>>
       THEN /\ workers' = [workers EXCEPT ![w].pc = "done"]
            /\ UNCHANGED <<week_queue, week_log, worker_errs>>
       ELSE /\ week_queue' = Tail(week_queue)
            /\ week_log' = Append(week_log,
                                  [worker |-> w, week |-> Head(week_queue)])
            /\ WeekOpened(w, Head(week_queue))
    /\ UNCHANGED <<bulk, bulk_sent, backfill_ret, sourceFrame>>
    /\ UNCHANGED <<main_pc, dest, dest_rx_open, feeder_open>>
    /\ UNCHANGED <<confVars, mirrorVars, weekVars, fwdVars, pollerVars, filterVars, storeVars,
                   sinkVars>>

\* week_to_pages: dest.send(page).await for the next chunk of the bundle;
\* the send fails when the receiver is gone, and the chunk after the last
\* full one is the read error's
WeekToPagesSend(w) ==
    /\ ProcessAlive
    /\ workers[w].pc = "send"
    /\ LET week == workers[w].week
           pages == ReadPages(week)
           i == workers[w].next
       IN IF ~BulkRxOpen
          THEN /\ WorkerFails(w, week, "send")
               /\ UNCHANGED <<bulk, bulk_sent>>
          ELSE /\ Len(bulk) < BULK_CHANNEL_CAP
               /\ bulk' = Append(bulk, pages[i])
               /\ bulk_sent' = Append(bulk_sent,
                                      [week |-> week, ops |-> pages[i]])
               /\ IF i < Len(pages)
                  THEN /\ workers' = [workers EXCEPT ![w].next = i + 1]
                       /\ UNCHANGED worker_errs
                  ELSE IF bundle_err[week] = "read"
                  THEN WorkerFails(w, week, "read")
                  ELSE /\ workers' = [workers EXCEPT ![w].pc = "pop"]
                       /\ UNCHANGED worker_errs
    /\ UNCHANGED <<week_queue, week_log, backfill_ret, sourceFrame>>
    /\ UNCHANGED <<main_pc, dest, dest_rx_open, feeder_open>>
    /\ UNCHANGED <<confVars, mirrorVars, weekVars, fwdVars, pollerVars, filterVars, storeVars,
                   sinkVars>>

\* a worker has ended when its queue ran dry or its week failed
WorkersEnded == \A w \in DOMAIN workers : workers[w].pc \in {"done", "failed"}

\* the result of the engine: the first error of its workers, else Ok
BackfillResult ==
    IF worker_errs = <<>> THEN [ok |-> TRUE, week |-> 0, why |-> "none"]
    ELSE [ok |-> FALSE, week |-> Head(worker_errs).week,
          why |-> Head(worker_errs).why]

\* backfill: all workers are awaited, then the first error is propagated
BackfillReturns ==
    /\ ProcessAlive
    /\ backfill_ret = None
    /\ WorkersEnded
    /\ backfill_ret' = Some(BackfillResult)
    /\ UNCHANGED <<week_queue, workers, week_log, worker_errs, bulk,
                   bulk_sent, sourceFrame>>
    /\ UNCHANGED <<main_pc, dest, dest_rx_open, feeder_open>>
    /\ UNCHANGED <<confVars, mirrorVars, weekVars, fwdVars, pollerVars, filterVars, storeVars,
                   sinkVars>>

\* every Sender of the bulk channel is dropped: the workers have ended
BulkSendersGone == WorkersEnded

\* last_at follows the page received last
MaxLastAt_latest(last_at, page) ==
    LET s == PageBoundaryState_new(page)
    IN IF ~IsSome(s) THEN last_at ELSE Some(Unwrap(s).last_at)

\* last_at.filter(|&l| l >= s.last_at).or(Some(s.last_at))
MaxLastAt(last_at, page) ==
    LET s == PageBoundaryState_new(page)
    IN IF ~IsSome(s) THEN last_at
       ELSE IF IsSome(last_at) /\ Unwrap(last_at) >= Unwrap(s).last_at
       THEN last_at
       ELSE Some(Unwrap(s).last_at)

\* the indexes of table operations that the reference server queries by name
IDX_CREATED_AT ==
    [name |-> "operations_createdAt_index", cols |-> <<"createdAt">>]
IDX_DID_CREATED_AT ==
    [name |-> "operations_did_createdat_idx", cols |-> <<"did", "createdAt">>]

\* the schema before a bulk load: both indexes, both tables logged
ReferenceSchema ==
    [indexes |-> {IDX_CREATED_AT, IDX_DID_CREATED_AT}, unlogged |-> {}]

sinkFrame == <<week_queue, workers, week_log, worker_errs, backfill_ret,
               bulk_sent>>

\* client.transaction(): the transaction starts from the committed state
BackfillToPgBegin ==
    /\ ProcessAlive
    /\ bulk_pc = "idle"
    /\ txn' = Some([operations |-> operations, dids |-> dids,
                    indexes |-> schema.indexes, unlogged |-> schema.unlogged])
    /\ bulk_pc' = "check"
    /\ UNCHANGED <<bulk, schema, copy_buf, bulk_last_at, rx_last,
                   notifications, sinkFrame>>
    /\ UNCHANGED <<main_pc, dest, dest_rx_open, feeder_open>>
    /\ UNCHANGED <<confVars, mirrorVars, weekVars, fwdVars, pollerVars, filterVars, storeVars,
                   sinkVars>>

\* the table check without its panic
TablesClean_unchecked(t) ==
    [ok |-> TRUE,
     txn |-> IF reset THEN [t EXCEPT !.operations = {}, !.dids = {}] ELSE t]

\* for table in ["operations", "dids"]: DELETE FROM table when reset, else
\* panic when count(*) > 0
TablesClean(t) ==
    IF reset
    THEN [ok |-> TRUE, txn |-> [t EXCEPT !.operations = {}, !.dids = {}]]
    ELSE [ok |-> t.operations = {} /\ t.dids = {}, txn |-> t]

\* backfill_to_pg: the tables are emptied or found empty, or the task panics
\* and the transaction is dropped
BackfillToPgCheck ==
    /\ ProcessAlive
    /\ bulk_pc = "check"
    /\ LET r == TablesClean(Unwrap(txn))
       IN IF r.ok
          THEN /\ txn' = Some(r.txn)
               /\ bulk_pc' = "unlog"
          ELSE /\ txn' = None
               /\ bulk_pc' = "panicked"
    /\ UNCHANGED <<bulk, schema, copy_buf, bulk_last_at, rx_last,
                   notifications, sinkFrame>>
    /\ UNCHANGED <<main_pc, dest, dest_rx_open, feeder_open>>
    /\ UNCHANGED <<confVars, mirrorVars, weekVars, fwdVars, pollerVars, filterVars, storeVars,
                   sinkVars>>

\* ALTER TABLE operations SET UNLOGGED; ALTER TABLE dids SET UNLOGGED
BackfillToPgSetUnlogged ==
    /\ ProcessAlive
    /\ bulk_pc = "unlog"
    /\ txn' = Some([Unwrap(txn) EXCEPT
                       !.unlogged = @ \cup {"operations", "dids"}])
    /\ bulk_pc' = "drop_idx"
    /\ UNCHANGED <<bulk, schema, copy_buf, bulk_last_at, rx_last,
                   notifications, sinkFrame>>
    /\ UNCHANGED <<main_pc, dest, dest_rx_open, feeder_open>>
    /\ UNCHANGED <<confVars, mirrorVars, weekVars, fwdVars, pollerVars, filterVars, storeVars,
                   sinkVars>>

\* the names DROP INDEX is given
DroppedIndexes == {"operations_createdAt_index", "operations_did_createdat_idx"}

\* DROP INDEX of both indexes on a connection of its own, committed at once
BackfillToPgDropIndexes_autocommit ==
    /\ ProcessAlive
    /\ bulk_pc = "drop_idx"
    /\ schema' = [schema EXCEPT !.indexes =
                      {ix \in @ : ix.name \notin DroppedIndexes}]
    /\ txn' = Some([Unwrap(txn) EXCEPT !.indexes =
                        {ix \in @ : ix.name \notin DroppedIndexes}])
    /\ bulk_pc' = "copy"
    /\ UNCHANGED <<bulk, copy_buf, bulk_last_at, rx_last, notifications,
                   sinkFrame>>
    /\ UNCHANGED <<main_pc, dest, dest_rx_open, feeder_open>>
    /\ UNCHANGED <<confVars, mirrorVars, weekVars, fwdVars, pollerVars, filterVars, storeVars,
                   sinkVars>>

\* DROP INDEX of both indexes, then copy_in opens the COPY stream; DROP INDEX
\* of a missing index is an error
BackfillToPgDropIndexes ==
    /\ ProcessAlive
    /\ bulk_pc = "drop_idx"
    /\ LET t == Unwrap(txn)
       IN IF DroppedIndexes \subseteq {ix.name : ix \in t.indexes}
          THEN /\ txn' = Some([t EXCEPT !.indexes =
                          {ix \in @ : ix.name \notin DroppedIndexes}])
               /\ bulk_pc' = "copy"
          ELSE /\ txn' = None
               /\ bulk_pc' = "failed"
    /\ UNCHANGED <<bulk, schema, copy_buf, bulk_last_at, rx_last,
                   notifications, sinkFrame>>
    /\ UNCHANGED <<main_pc, dest, dest_rx_open, feeder_open>>
    /\ UNCHANGED <<confVars, mirrorVars, weekVars, fwdVars, pollerVars, filterVars, storeVars,
                   sinkVars>>

\* if notify_last_at.is_some() && let Some(s) = PageBoundaryState::new(&page)
NextLastAt(last_at, page) ==
    IF notify THEN MaxLastAt(last_at, page) ELSE last_at

\* backfill_to_pg: pages.recv() yields a page; its ops go to COPY IN
BackfillToPgRecv ==
    /\ ProcessAlive
    /\ bulk_pc = "copy"
    /\ bulk # <<>>
    /\ copy_buf' = copy_buf \o Head(bulk)
    /\ bulk_last_at' = NextLastAt(bulk_last_at, Head(bulk))
    /\ bulk' = Tail(bulk)
    /\ UNCHANGED <<bulk_pc, txn, schema, rx_last, notifications, sinkFrame>>
    /\ UNCHANGED <<main_pc, dest, dest_rx_open, feeder_open>>
    /\ UNCHANGED <<confVars, mirrorVars, weekVars, fwdVars, pollerVars, filterVars, storeVars,
                   sinkVars>>

\* the loop over pages.recv() ends on any empty channel
RecvEnds_early == bulk = <<>>

\* while let Some(page) = pages.recv().await ends: the channel is empty and
\* every sender is gone
RecvEnds == bulk = <<>> /\ BulkSendersGone

\* if let Some(notify) = notify_last_at { notify.send(last_at) }
NotifySend(last_at) ==
    /\ rx_last' = (IF notify THEN Some(last_at) ELSE rx_last)
    /\ notifications' = (IF notify THEN notifications + 1 ELSE notifications)

\* backfill_to_pg: pages.recv() yields None; last_at is sent on the one-shot
BackfillToPgNotify ==
    /\ ProcessAlive
    /\ bulk_pc = "copy"
    /\ RecvEnds
    /\ NotifySend(bulk_last_at)
    /\ bulk_pc' = "finishing"
    /\ UNCHANGED <<bulk, txn, schema, copy_buf, bulk_last_at, sinkFrame>>
    /\ UNCHANGED <<main_pc, dest, dest_rx_open, feeder_open>>
    /\ UNCHANGED <<confVars, mirrorVars, weekVars, fwdVars, pollerVars, filterVars, storeVars,
                   sinkVars>>

\* the rows of a COPY are accepted: no (did, cid) is repeated among them or
\* held by the table already
\* COPY into a table without its primary key
CopyAccepted_unkeyed(rows, table) == TRUE

\* COPY operations ... FROM STDIN: the primary key (did, cid) admits the rows
\* when no two of them, and none of them and a row of the table, share a key
CopyAccepted(rows, table) ==
    /\ \A i, j \in 1..Len(rows) : OpKey(rows[i]) = OpKey(rows[j]) => i = j
    /\ \A i \in 1..Len(rows) : \A op \in table : OpKey(op) # OpKey(rows[i])

\* backfill_to_pg: writer.finish() ends the COPY; a repeated (did, cid) fails
\* it and with it the transaction
BackfillToPgFinishCopy ==
    /\ ProcessAlive
    /\ bulk_pc = "finishing"
    /\ LET t == Unwrap(txn)
       IN IF CopyAccepted(copy_buf, t.operations)
          THEN /\ txn' = Some([t EXCEPT
                                  !.operations = @ \cup Range(copy_buf)])
               /\ bulk_pc' = "create_idx"
          ELSE /\ txn' = None
               /\ bulk_pc' = "failed"
    /\ UNCHANGED <<bulk, schema, copy_buf, bulk_last_at, rx_last,
                   notifications, sinkFrame>>
    /\ UNCHANGED <<main_pc, dest, dest_rx_open, feeder_open>>
    /\ UNCHANGED <<confVars, mirrorVars, weekVars, fwdVars, pollerVars, filterVars, storeVars,
                   sinkVars>>

\* the recreated indexes, one of them under another name
CreatedIndexes_renamed ==
    {[name |-> "operations_createdat_index", cols |-> <<"createdAt">>],
     IDX_DID_CREATED_AT}

\* CREATE INDEX operations_did_createdat_idx ON operations (did, "createdAt")
\* CREATE INDEX "operations_createdAt_index" ON operations ("createdAt")
CreatedIndexes == {IDX_DID_CREATED_AT, IDX_CREATED_AT}

\* backfill_to_pg: both indexes are created; CREATE INDEX under a name in
\* use is an error
BackfillToPgCreateIndexes ==
    /\ ProcessAlive
    /\ bulk_pc = "create_idx"
    /\ LET t == Unwrap(txn)
       IN IF {ix.name : ix \in CreatedIndexes}
                \cap {ix.name : ix \in t.indexes} = {}
          THEN /\ txn' = Some([t EXCEPT !.indexes = @ \cup CreatedIndexes])
               /\ bulk_pc' = "dids"
          ELSE /\ txn' = None
               /\ bulk_pc' = "failed"
    /\ UNCHANGED <<bulk, schema, copy_buf, bulk_last_at, rx_last,
                   notifications, sinkFrame>>
    /\ UNCHANGED <<main_pc, dest, dest_rx_open, feeder_open>>
    /\ UNCHANGED <<confVars, mirrorVars, weekVars, fwdVars, pollerVars, filterVars, storeVars,
                   sinkVars>>

\* the dids of the rows below the largest createdAt only
DistinctDids_settled(ops) ==
    {op.did : op \in {o \in ops :
                         \E later \in ops : later.created_at > o.created_at}}

\* variant: the statement selects no row
DistinctDids_none(ops) == {}

\* SELECT distinct did FROM operations
DistinctDids(ops) == {op.did : op \in ops}

\* backfill_to_pg: INSERT INTO dids SELECT distinct did FROM operations; a did
\* that dids holds already is an error
BackfillToPgPopulateDids ==
    /\ ProcessAlive
    /\ bulk_pc = "dids"
    /\ LET t == Unwrap(txn)
       IN IF DistinctDids(t.operations) \cap t.dids = {}
          THEN /\ txn' = Some([t EXCEPT
                                  !.dids = @ \cup DistinctDids(t.operations)])
               /\ bulk_pc' = "set_logged"
          ELSE /\ txn' = None
               /\ bulk_pc' = "failed"
    /\ UNCHANGED <<bulk, schema, copy_buf, bulk_last_at, rx_last,
                   notifications, sinkFrame>>
    /\ UNCHANGED <<main_pc, dest, dest_rx_open, feeder_open>>
    /\ UNCHANGED <<confVars, mirrorVars, weekVars, fwdVars, pollerVars, filterVars, storeVars,
                   sinkVars>>

\* ALTER TABLE dids SET LOGGED; ALTER TABLE operations SET LOGGED
BackfillToPgSetLogged ==
    /\ ProcessAlive
    /\ bulk_pc = "set_logged"
    /\ txn' = Some([Unwrap(txn) EXCEPT
                       !.unlogged = @ \ {"dids", "operations"}])
    /\ bulk_pc' = "commit"
    /\ UNCHANGED <<bulk, schema, copy_buf, bulk_last_at, rx_last,
                   notifications, sinkFrame>>
    /\ UNCHANGED <<main_pc, dest, dest_rx_open, feeder_open>>
    /\ UNCHANGED <<confVars, mirrorVars, weekVars, fwdVars, pollerVars, filterVars, storeVars,
                   sinkVars>>

\* backfill_to_pg: tx.commit() makes the transaction's view the store
BackfillToPgCommit ==
    /\ ProcessAlive
    /\ bulk_pc = "commit"
    /\ LET t == Unwrap(txn)
       IN /\ operations' = t.operations
          /\ dids' = t.dids
          /\ schema' = [indexes |-> t.indexes, unlogged |-> t.unlogged]
    /\ txn' = None
    /\ bulk_pc' = "done"
    /\ UNCHANGED <<ops_inserted, dids_inserted>>
    /\ UNCHANGED <<bulk, copy_buf, bulk_last_at, rx_last, notifications,
                   sinkFrame>>
    /\ UNCHANGED <<main_pc, dest, dest_rx_open, feeder_open>>
    /\ UNCHANGED <<confVars, mirrorVars, weekVars, fwdVars, pollerVars, filterVars, sinkVars>>

\* the positions of backfill_to_pg at which its transaction is open
InTransaction ==
    {"check", "unlog", "drop_idx", "copy", "finishing", "create_idx", "dids",
     "set_logged", "commit"}

\* backfill_to_pg: a statement of the transaction returns an error; `?`
\* returns it and the dropped transaction rolls back
BackfillToPgFails ==
    /\ ProcessAlive
    /\ bulk_pc \in InTransaction
    /\ txn' = None
    /\ bulk_pc' = "failed"
    /\ UNCHANGED <<bulk, schema, copy_buf, bulk_last_at, rx_last,
                   notifications, sinkFrame>>
    /\ UNCHANGED <<main_pc, dest, dest_rx_open, feeder_open>>
    /\ UNCHANGED <<confVars, mirrorVars, weekVars, fwdVars, pollerVars, filterVars, storeVars,
                   sinkVars>>

\* the process or the server dies; an open transaction is never committed
Crash ==
    /\ ProcessAlive
    /\ bulk_pc \in InTransaction
    /\ txn' = None
    /\ main_pc' = "crashed"
    /\ UNCHANGED <<bulk, bulk_pc, schema, copy_buf, bulk_last_at, rx_last,
                   notifications, sinkFrame>>
    /\ UNCHANGED <<dest, dest_rx_open, feeder_open>>
    /\ UNCHANGED <<confVars, mirrorVars, weekVars, fwdVars, pollerVars, filterVars, storeVars,
                   sinkVars>>

\* pages_to_stdout on the bulk channel: rx.recv() yields a page; its ops are
\* printed
BulkToStdoutRecv ==
    /\ ProcessAlive
    /\ bulk_pc = "stdout"
    /\ bulk # <<>>
    /\ copy_buf' = copy_buf \o Head(bulk)
    /\ bulk_last_at' = NextLastAt(bulk_last_at, Head(bulk))
    /\ bulk' = Tail(bulk)
    /\ UNCHANGED <<bulk_pc, txn, schema, rx_last, notifications, sinkFrame>>
    /\ UNCHANGED <<main_pc, dest, dest_rx_open, feeder_open>>
    /\ UNCHANGED <<confVars, mirrorVars, weekVars, fwdVars, pollerVars, filterVars, storeVars,
                   sinkVars>>

\* pages_to_stdout on the bulk channel: rx.recv() yields None; last_at is
\* sent on the one-shot and the sink returns Ok
BulkToStdoutEnd ==
    /\ ProcessAlive
    /\ bulk_pc = "stdout"
    /\ RecvEnds
    /\ NotifySend(bulk_last_at)
    /\ bulk_pc' = "printed"
    /\ UNCHANGED <<bulk, txn, schema, copy_buf, bulk_last_at, sinkFrame>>
    /\ UNCHANGED <<main_pc, dest, dest_rx_open, feeder_open>>
    /\ UNCHANGED <<confVars, mirrorVars, weekVars, fwdVars, pollerVars, filterVars, storeVars,
                   sinkVars>>

\* page sizes around the filter's threshold
PageSizes == {0, 850, FULL_PAGE_MIN, EXPORT_PAGE_CAP}

\* GET <base>/export?after=... during catch-up: the next ops at or after
\* `after`, a full page of them or fewer
CatchUpSizes == {0, 850, EXPORT_PAGE_CAP}

CatchUpPages(log, after) ==
    LET eligible == {i \in 1..Len(log) :
                        after = None \/ log[i].created_at >= Unwrap(after)}
        first == CHOOSE i \in eligible : \A j \in eligible : i <= j
    IN IF eligible = {} THEN {<<>>}
       ELSE {SubSeq(log, first,
                    IF first + n - 1 < Len(log) THEN first + n - 1
                    ELSE Len(log)) : n \in CatchUpSizes}

PollCatchUp ==
    \E page \in CatchUpPages(upstream, RequestAfter(prev_last)) :
        PollIteration(page, MaxCatchUpPolls) /\ UNCHANGED bodies

\* main spawns the poller without awaiting rx_last, from the start of the log
\* when nothing was sent yet
MainGotLastAt_unawaited ==
    /\ main_pc = "await_last_at"
    /\ main_pc' = "await_bulk"
    /\ prev_last' = (IF IsSome(rx_last) /\ IsSome(Unwrap(rx_last))
                     THEN Some(LastOpFromDt(Unwrap(Unwrap(rx_last))))
                     ELSE None)
    /\ poller_pc' = "polling"
    /\ UNCHANGED <<boundary_state, pending, polls, fetched, bodies, sent, last_iter>>
    /\ UNCHANGED <<dest, dest_rx_open, feeder_open>>
    /\ UNCHANGED <<confVars, mirrorVars, weekVars, fwdVars, filterVars, bulkVars, storeVars,
                   sinkVars>>

\* main, Commands::Backfill with catch_up: rx_last.await yields last_at and
\* the poller is spawned with it
MainGotLastAt ==
    /\ main_pc = "await_last_at"
    /\ IsSome(rx_last)
    /\ main_pc' = "await_bulk"
    /\ prev_last' = (IF IsSome(Unwrap(rx_last))
                     THEN Some(LastOpFromDt(Unwrap(Unwrap(rx_last))))
                     ELSE None)
    /\ poller_pc' = "polling"
    /\ UNCHANGED <<boundary_state, pending, polls, fetched, bodies, sent, last_iter>>
    /\ UNCHANGED <<dest, dest_rx_open, feeder_open>>
    /\ UNCHANGED <<confVars, mirrorVars, weekVars, fwdVars, filterVars, bulkVars, storeVars, sinkVars>>

\* variant: rx_last.await.unwrap_or_default(), a dropped sender counts as
\* no last_at and the poller is spawned from the start of the log
MainLastAtDropped_default ==
    /\ main_pc = "await_last_at"
    /\ rx_last = None
    /\ bulk_pc \in {"failed", "panicked"}
    /\ main_pc' = "await_bulk"
    /\ prev_last' = None
    /\ poller_pc' = "polling"
    /\ UNCHANGED <<boundary_state, pending, polls, fetched, bodies, sent,
                   last_iter>>
    /\ UNCHANGED <<dest, dest_rx_open, feeder_open>>
    /\ UNCHANGED <<confVars, mirrorVars, weekVars, fwdVars, filterVars, bulkVars,
                   storeVars, sinkVars>>

\* main, Commands::Backfill with catch_up: the sink ended without sending
\* last_at, so rx_last.await yields an error and the expect panics
MainLastAtDropped ==
    /\ main_pc = "await_last_at"
    /\ rx_last = None
    /\ bulk_pc \in {"failed", "panicked"}
    /\ main_pc' = "panicked"
    /\ UNCHANGED <<dest, dest_rx_open, feeder_open>>
    /\ UNCHANGED <<confVars, mirrorVars, weekVars, fwdVars, pollerVars, filterVars,
                   bulkVars, storeVars, sinkVars>>

\* variant: main starts the filter and the sink without awaiting
\* bulk_out_write
MainBulkJoined_unawaited ==
    /\ main_pc = "await_bulk"
    /\ main_pc' = "catch_up"
    /\ filter_pc' = "recv"
    /\ sink_pc' = "recv"
    /\ UNCHANGED <<held, fwd, forwarded, consumed, filter_log, pages_written>>
    /\ UNCHANGED <<dest, dest_rx_open, feeder_open>>
    /\ UNCHANGED <<confVars, mirrorVars, weekVars, fwdVars, pollerVars, bulkVars, storeVars>>

\* main: bulk_out_write.await returns; the filter task is spawned and main
\* runs pages_to_pg on its output
MainBulkJoined ==
    /\ main_pc = "await_bulk"
    /\ bulk_pc \in {"done", "printed", "failed", "panicked"}
    /\ IF bulk_pc \in {"done", "printed"}
       THEN /\ main_pc' = "catch_up"
            /\ filter_pc' = "recv"
            /\ sink_pc' = "recv"
       ELSE /\ main_pc' = "panicked"
            /\ UNCHANGED <<filter_pc, sink_pc>>
    /\ UNCHANGED <<held, fwd, forwarded, consumed, filter_log, pages_written>>
    /\ UNCHANGED <<dest, dest_rx_open, feeder_open>>
    /\ UNCHANGED <<confVars, mirrorVars, weekVars, fwdVars, pollerVars, bulkVars, storeVars>>

\* main: pages_to_pg(db, full_pages).await returns Ok and main ends
MainSinkDone ==
    /\ main_pc = "catch_up"
    /\ sink_pc = "done"
    /\ main_pc' = "done"
    /\ UNCHANGED <<dest, dest_rx_open, feeder_open>>
    /\ UNCHANGED <<confVars, mirrorVars, weekVars, fwdVars, pollerVars, filterVars, bulkVars, storeVars,
                   sinkVars>>

\* main, Commands::Backfill without catch_up: nothing is awaited after the
\* two tasks are spawned, so main goes on to its end; the runtime is dropped
\* and every task with it, and an open transaction is never committed
MainReturns ==
    /\ main_pc = "run"
    /\ ~notify
    /\ main_pc' = "done"
    /\ txn' = None
    /\ UNCHANGED <<bulk, bulk_pc, schema, copy_buf, bulk_last_at, rx_last,
                   notifications, sinkFrame>>
    /\ UNCHANGED <<dest, dest_rx_open, feeder_open>>
    /\ UNCHANGED <<confVars, mirrorVars, weekVars, fwdVars, pollerVars, filterVars, storeVars,
                   sinkVars>>

\* ------------------------------------------------- pages from other senders
\* a task holding a sender of dest puts a page on it
FeedPage(page) ==
    /\ ProcessAlive
    /\ feeder_open
    /\ IF dest_rx_open
       THEN /\ Len(dest) < dest_cap
            /\ dest' = Append(dest, page)
            /\ sent' = Append(sent, page)
            /\ UNCHANGED feeder_open
       ELSE /\ feeder_open' = FALSE
            /\ UNCHANGED <<dest, sent>>
    /\ UNCHANGED <<prev_last, boundary_state, poller_pc, pending, polls,
                   fetched, bodies, last_iter>>
    /\ UNCHANGED <<main_pc, dest_rx_open>>
    /\ UNCHANGED <<confVars, mirrorVars, weekVars, fwdVars, filterVars, bulkVars, storeVars, sinkVars>>

\* that task drops its sender
FeedClose ==
    /\ ProcessAlive
    /\ feeder_open
    /\ feeder_open' = FALSE
    /\ UNCHANGED <<main_pc, dest, dest_rx_open>>
    /\ UNCHANGED <<confVars, mirrorVars, weekVars, fwdVars, pollerVars, filterVars, bulkVars, storeVars,
                   sinkVars>>

\* pages of every size around the filter's threshold
FeedSizedPage ==
    /\ Len(sent) < MaxFeeds
    /\ \E n \in PageSizes :
          FeedPage(SubSeq(upstream, Len(sent) + 1, Len(sent) + n))

\* ops for the loader: three rows of one (did, cid), which differ in the
\* nullified flag or in createdAt and body, a second cid of that did, and
\* that cid under a second did
ReplayOps ==
    {MkOp(1, 1, 1, FALSE, 1), MkOp(1, 1, 1, TRUE, 1), MkOp(1, 1, 3, FALSE, 4),
     MkOp(1, 2, 2, FALSE, 2), MkOp(2, 1, 2, FALSE, 3)}

ReplayPages == UNION {[1..n -> ReplayOps] : n \in 0..MaxReplayLen}

\* a page is played for the first time
PlayPage ==
    /\ Len(sent) < MaxPlays
    /\ Len(sent) % 2 = 0
    /\ \E page \in ReplayPages : FeedPage(page)

\* the page played last is played again
ReplayPage ==
    /\ Len(sent) < MaxPlays
    /\ Len(sent) % 2 = 1
    /\ FeedPage(Last(sent))

\* ------------------------------------------------------------------ mirror
\* the tasks run spawns on its JoinSet, in spawn order
MirrorTasks == <<"poll_upstream", "pages_to_pg", "serve">>

mirrorFrame == <<main_pc, dest, dest_rx_open, feeder_open, confVars,
                 weekVars, fwdVars, pollerVars, filterVars, bulkVars, storeVars, sinkVars>>

\* run: Db::new and db.get_latest() before any task is spawned; an error
\* returns it, a store without ops panics
MirrorSetup ==
    /\ run_pc = "setup"
    /\ \E ok \in BOOLEAN :
          run_pc' = (IF ~ok THEN "err_setup"
                     ELSE IF operations = {} THEN "panicked"
                     ELSE "spawning")
    /\ UNCHANGED <<tasks, join_queue, mirrorFrame>>

\* run: tasks.spawn(...) of the next task; after the last one the join loop
\* begins
MirrorSpawn ==
    /\ run_pc = "spawning"
    /\ tasks' = Append(tasks, [name |-> MirrorTasks[Len(tasks) + 1],
                               state |-> "running", joined |-> FALSE])
    /\ run_pc' = (IF Len(tasks) + 1 = Len(MirrorTasks) THEN "joining"
                  ELSE "spawning")
    /\ UNCHANGED <<join_queue, mirrorFrame>>

\* how a task can end: poll_upstream leaves its loop only through `?` or a
\* panic; pages_to_pg returns Ok once every sender of its channel is gone;
\* a task the runtime cancels ends with a join error that is no panic
TaskOutcomes(i) ==
    {"cancelled"} \cup
    (IF tasks[i].name = "poll_upstream" THEN {"err", "panic"}
     ELSE IF tasks[i].name = "pages_to_pg"
     THEN {"err"} \cup (IF tasks[1].state # "running" THEN {"ok"} ELSE {})
     ELSE {"ok", "err", "panic"})

\* a spawned task ends; the JoinSet holds its outcome for join_next
TaskEnds(i) ==
    /\ run_pc \in {"spawning", "joining"}
    /\ tasks[i].state = "running"
    /\ \E out \in TaskOutcomes(i) :
          tasks' = [tasks EXCEPT ![i].state = out]
    /\ join_queue' = Append(join_queue, i)
    /\ UNCHANGED <<run_pc, mirrorFrame>>

\* the arms of the match, with a returned error logged and passed over
JoinArm_lenient(out) ==
    IF out = "panic" THEN "err_panic"
    ELSE IF out = "cancelled" THEN "err_join"
    ELSE "joining"

\* match next: Err(e) if e.is_panic(), Err(e), Ok(Err(e)) return the error;
\* Ok(Ok(name)) goes on
JoinArm(out) ==
    IF out = "panic" THEN "err_panic"
    ELSE IF out = "cancelled" THEN "err_join"
    ELSE IF out = "err" THEN "err_task"
    ELSE "joining"

\* run: tasks.join_next().await yields the outcome of the task that ended
\* first among those not yet joined, or None when the set is empty; a
\* return drops the JoinSet, which aborts the tasks still running
JoinNext ==
    /\ run_pc = "joining"
    /\ IF join_queue # <<>>
       THEN LET i == Head(join_queue)
                pc == JoinArm(tasks[i].state)
            IN /\ run_pc' = pc
               /\ IF pc = "joining"
                  THEN /\ tasks' = [tasks EXCEPT ![i].joined = TRUE]
                       /\ join_queue' = Tail(join_queue)
                  ELSE /\ tasks' = [j \in DOMAIN tasks |->
                                       IF tasks[j].state = "running"
                                       THEN [tasks[j] EXCEPT
                                                !.state = "aborted"]
                                       ELSE IF j = i
                                       THEN [tasks[j] EXCEPT !.joined = TRUE]
                                       ELSE tasks[j]]
                       /\ join_queue' = <<>>
       ELSE /\ \A j \in DOMAIN tasks : tasks[j].joined
            /\ run_pc' = "ok"
            /\ UNCHANGED <<tasks, join_queue>>
    /\ UNCHANGED mirrorFrame

\* ------------------------------------------------------------- weekly.rs
WEEK_IN_SECONDS == 7 * 86400
HOUR_IN_SECONDS == 3600
CUTOFF_HOURS == 73

\* i64 `/`: the quotient is rounded toward zero
TruncDiv(a, b) == IF a >= 0 THEN a \div b ELSE -((-a) \div b)

\* impl From<Dt> for Week
WeekFromDt(ts) == TruncDiv(ts, WEEK_IN_SECONDS) * WEEK_IN_SECONDS

\* impl From<Week> for Dt: Dt::from_timestamp(ts, 0), the Dt of that second
DtFromWeek(w) == w

\* Week::next, Week::prev
Week_next(w) == w + WEEK_IN_SECONDS
Week_prev(w) == w - WEEK_IN_SECONDS

\* Week::nullification_cutoff
nullification_cutoff(now) == now - CUTOFF_HOURS * HOUR_IN_SECONDS

\* a week is immutable only when it ended more than 73 hours ago
is_immutable_strict(w, now) == Week_next(w) < nullification_cutoff(now)

\* Week::is_immutable
is_immutable(w, now) == Week_next(w) <= nullification_cutoff(now)

\* Bound::Included, Bound::Excluded, Bound::Unbounded
Included(w) == [kind |-> "included", week |-> w]
Excluded(w) == [kind |-> "excluded", week |-> w]
Unbounded == [kind |-> "unbounded", week |-> 0]

\* the weeks from first to last, a week apart
WeeksFromTo(first, last) ==
    LET n == IF last < first THEN 0
             ELSE (last - first) \div WEEK_IN_SECONDS + 1
    IN [i \in 1..n |-> first + (i - 1) * WEEK_IN_SECONDS]

\* Week::range with an excluded end taken as an included one
Week_range_inclusive(start, end, now) ==
    IF start.kind = "unbounded" THEN None
    ELSE LET first == IF start.kind = "included" THEN start.week
                      ELSE Week_next(start.week)
             last == IF end.kind = "unbounded"
                     THEN Week_prev(nullification_cutoff(now))
                     ELSE end.week
         IN Some(WeeksFromTo(first, last))

\* Week::range: None when it panics
Week_range(start, end, now) ==
    IF start.kind = "unbounded" THEN None
    ELSE LET first == IF start.kind = "included" THEN start.week
                      ELSE Week_next(start.week)
             last == IF end.kind = "included" THEN end.week
                     ELSE IF end.kind = "excluded" THEN Week_prev(end.week)
                     ELSE Week_prev(nullification_cutoff(now))
         IN Some(WeeksFromTo(first, last))

fwdFrame == <<main_pc, dest, dest_rx_open, feeder_open, confVars, mirrorVars,
              weekVars, pollerVars, filterVars, bulkVars, storeVars, sinkVars>>

weekFrame == <<main_pc, dest, dest_rx_open, feeder_open, confVars,
               mirrorVars, fwdVars, pollerVars, filterVars, bulkVars, storeVars,
               sinkVars>>

\* Week::from(dt)
WeekFrom ==
    /\ wk_week = None
    /\ wk_week' = Some(WeekFromDt(wk_dt))
    /\ UNCHANGED <<wk_now, wk_dt, wk_back, wk_immutable, wk_range, weekFrame>>

\* Dt::from(week) of the week computed
DtFrom ==
    /\ IsSome(wk_week)
    /\ wk_back = None
    /\ wk_back' = Some(DtFromWeek(Unwrap(wk_week)))
    /\ UNCHANGED <<wk_now, wk_dt, wk_week, wk_immutable, wk_range, weekFrame>>

\* week.is_immutable() of the week computed
IsImmutable ==
    /\ IsSome(wk_week)
    /\ wk_immutable = None
    /\ wk_immutable' = Some(is_immutable(Unwrap(wk_week), wk_now))
    /\ UNCHANGED <<wk_now, wk_dt, wk_week, wk_back, wk_range, weekFrame>>

\* the weeks a range may be bounded by
WeekStarts == {n * WEEK_IN_SECONDS : n \in (-MaxWeekN)..MaxWeekN}

\* Week::range(r) with the week computed as the start bound: week.., week..b,
\* week..=b, and the bounds that take tuples
WeekRange ==
    /\ IsSome(wk_week)
    /\ wk_range = None
    /\ \E start \in {Included(Unwrap(wk_week)), Excluded(Unwrap(wk_week)),
                     Unbounded},
          end \in {Unbounded} \cup {Included(b) : b \in WeekStarts}
                     \cup {Excluded(b) : b \in WeekStarts} :
          wk_range' = Some([start |-> start, end |-> end,
                            out |-> Week_range(start, end, wk_now)])
    /\ UNCHANGED <<wk_now, wk_dt, wk_week, wk_back, wk_immutable, weekFrame>>

\* -------------------------------------------------------------- the runs
TAIL_CHANNEL_CAP == 1

InitPoller(after) ==
    /\ prev_last = (IF IsSome(after) THEN Some(LastOpFromDt(Unwrap(after)))
                    ELSE None)
    /\ boundary_state = None
    /\ poller_pc = "polling"
    /\ pending = None
    /\ polls = 0
    /\ fetched = <<>>
    /\ bodies = <<>>
    /\ sent = <<>>
    /\ last_iter = None

\* no poller has been spawned
InitNoPoller ==
    /\ prev_last = None
    /\ boundary_state = None
    /\ poller_pc = "idle"
    /\ pending = None
    /\ polls = 0
    /\ fetched = <<>>
    /\ bodies = <<>>
    /\ sent = <<>>
    /\ last_iter = None

InitFilter(pc) ==
    /\ filter_pc = pc
    /\ held = None
    /\ fwd = <<>>
    /\ forwarded = <<>>
    /\ consumed = 0
    /\ filter_log = ""

\* the bulk sink before it has received anything
InitBulkSink(pc) ==
    /\ bulk = <<>>
    /\ bulk_sent = <<>>
    /\ bulk_pc = pc
    /\ txn = None
    /\ schema = ReferenceSchema
    /\ copy_buf = <<>>
    /\ bulk_last_at = None
    /\ rx_last = None
    /\ notifications = 0

\* backfill with n workers over the weeks of the bundles
InitWorkers(n) ==
    /\ week_queue = [w \in 1..Len(bundles) |-> w]
    /\ workers = [w \in 1..n |-> [pc |-> "pop", week |-> 0, next |-> 0]]
    /\ week_log = <<>>
    /\ worker_errs = <<>>
    /\ backfill_ret = None

\* every bundle of the range can be opened and read to its end
AllReadable == bundle_err = [w \in DOMAIN bundles |-> "none"]

\* no bundle is read and no bulk sink runs
InitNoBulk ==
    /\ bundles = <<>>
    /\ reset = FALSE
    /\ notify = FALSE
    /\ bundle_err = <<>>
    /\ week_queue = <<>>
    /\ workers = <<>>
    /\ week_log = <<>>
    /\ worker_errs = <<>>
    /\ backfill_ret = None
    /\ InitBulkSink("idle")

\* no PageForwarder is constructed
InitNoFwd ==
    /\ pf_N = 1
    /\ pf_newlines = 0
    /\ pf_bytes = <<>>
    /\ pf_dest = <<>>
    /\ pf_buf = None
    /\ pf_left = 0

\* no Week is computed
InitNoWeek ==
    /\ wk_now = 0
    /\ wk_dt = 0
    /\ wk_week = None
    /\ wk_back = None
    /\ wk_immutable = None
    /\ wk_range = None

\* no orchestrator runs
InitNoMirror ==
    /\ tasks = <<>>
    /\ join_queue = <<>>
    /\ run_pc = "idle"

InitStore ==
    /\ operations = {}
    /\ dids = {}
    /\ ops_inserted = 0
    /\ dids_inserted = 0

\* Commands::Tail: poll_upstream feeding the loader over mpsc::channel(1)
Init ==
    /\ upstream \in UpstreamLogs
    /\ main_pc = "run"
    /\ \E after \in {None, Some(1)} : InitPoller(after)
    /\ dest = <<>>
    /\ dest_cap = TAIL_CHANNEL_CAP
    /\ dest_rx_open = TRUE
    /\ feeder_open = FALSE
    /\ InitFilter("idle")
    /\ InitNoBulk
    /\ InitNoMirror
    /\ InitNoWeek
    /\ InitNoFwd
    /\ InitStore
    /\ sink_src = "dest"
    /\ sink_pc = "recv"
    /\ pages_written = 0

Next ==
    \/ PollUpstream
    \/ SendAwaited
    \/ GetPageFails
    \/ PagesToPgRecv
    \/ PagesToPgEnd

Spec == Init /\ [][Next]_vars

NextAny ==
    \/ PollAnyUpstream
    \/ SendAwaited
    \/ GetPageFails
    \/ PagesToPgRecv
    \/ PagesToPgEnd

SpecAny == Init /\ [][NextAny]_vars

\* poll_upstream after its first iteration, over any first page with an op
InitDedup ==
    /\ upstream = <<>>
    /\ main_pc = "run"
    /\ \E page \in DedupPages \ {<<>>} :
          /\ prev_last = Some(LastOpFromOp(Last(page)))
          /\ boundary_state = PageBoundaryState_new(page)
          /\ fetched = <<page>>
          /\ sent = <<page>>
          /\ dest = <<page>>
          /\ last_iter = Some([pre |-> None, raw |-> page, out |-> page,
                               panicked |-> FALSE])
    /\ bodies = <<>>
    /\ poller_pc = "polling"
    /\ pending = None
    /\ polls = 1
    /\ dest_cap = TAIL_CHANNEL_CAP
    /\ dest_rx_open = TRUE
    /\ feeder_open = FALSE
    /\ InitFilter("idle")
    /\ InitNoBulk
    /\ InitNoMirror
    /\ InitNoWeek
    /\ InitNoFwd
    /\ InitStore
    /\ sink_src = "dest"
    /\ sink_pc = "recv"
    /\ pages_written = 0

NextDedup == PollDedup

SpecDedup == InitDedup /\ [][NextDedup]_vars

\* Commands::Tail against an upstream whose bodies hold blank and malformed
\* lines
InitLines ==
    /\ upstream \in UpstreamLogs
    /\ main_pc = "run"
    /\ InitPoller(None)
    /\ dest = <<>>
    /\ dest_cap = TAIL_CHANNEL_CAP
    /\ dest_rx_open = TRUE
    /\ feeder_open = FALSE
    /\ InitFilter("idle")
    /\ InitNoBulk
    /\ InitNoMirror
    /\ InitNoWeek
    /\ InitNoFwd
    /\ InitStore
    /\ sink_src = "dest"
    /\ sink_pc = "recv"
    /\ pages_written = 0

NextLines ==
    \/ PollLines
    \/ SendAwaited
    \/ GetPageFails
    \/ PagesToPgRecv
    \/ PagesToPgEnd

SpecLines == InitLines /\ [][NextLines]_vars

\* full_pages (lib.rs) between a sender of pages and pages_to_stdout
InitFilterRun ==
    /\ upstream = CatchUpLog
    /\ main_pc = "run"
    /\ InitNoPoller
    /\ dest = <<>>
    /\ dest_cap = CATCHUP_CHANNEL_CAP
    /\ dest_rx_open = TRUE
    /\ feeder_open = TRUE
    /\ InitFilter("recv")
    /\ InitNoBulk
    /\ InitNoMirror
    /\ InitNoWeek
    /\ InitNoFwd
    /\ InitStore
    /\ sink_src = "fwd"
    /\ sink_pc = "recv"
    /\ pages_written = 0

NextFilter ==
    \/ FeedSizedPage
    \/ FeedClose
    \/ full_pages_recv
    \/ full_pages_send
    \/ full_pages_closed
    \/ PagesToStdoutRecv
    \/ PagesToStdoutEnd

SpecFilter == InitFilterRun /\ [][NextFilter]_vars

\* pages_to_pg fed the same pages twice
InitReplay ==
    /\ upstream = <<>>
    /\ main_pc = "run"
    /\ InitNoPoller
    /\ dest = <<>>
    /\ dest_cap = TAIL_CHANNEL_CAP
    /\ dest_rx_open = TRUE
    /\ feeder_open = TRUE
    /\ InitFilter("idle")
    /\ InitNoBulk
    /\ InitNoMirror
    /\ InitNoWeek
    /\ InitNoFwd
    /\ InitStore
    /\ sink_src = "dest"
    /\ sink_pc = "recv"
    /\ pages_written = 0

NextReplay ==
    \/ PlayPage
    \/ ReplayPage
    \/ FeedClose
    \/ PagesToPgRecv
    \/ PagesToPgFails
    \/ PagesToPgEnd

SpecReplay == InitReplay /\ [][NextReplay]_vars

\* Commands::Backfill with catch_up and to_postgres
InitBackfill ==
    /\ upstream = CatchUpLog
    /\ main_pc = "await_last_at"
    /\ InitNoPoller
    /\ dest = <<>>
    /\ dest_cap = CATCHUP_CHANNEL_CAP
    /\ dest_rx_open = TRUE
    /\ feeder_open = FALSE
    /\ InitFilter("idle")
    /\ bundles = BundlesOf(CatchUpLog, [w \in 1..NumWeeks |-> BundleLen])
    /\ reset = FALSE
    /\ notify = TRUE
    /\ InitWorkers(DIR_SOURCE_WORKERS)
    /\ AllReadable
    /\ InitBulkSink("idle")
    /\ InitNoMirror
    /\ InitNoWeek
    /\ InitNoFwd
    /\ InitStore
    /\ sink_src = "fwd"
    /\ sink_pc = "idle"
    /\ pages_written = 0

NextBackfill ==
    \/ \E w \in DOMAIN workers : WorkerPop(w)
    \/ \E w \in DOMAIN workers : WeekToPagesSend(w)
    \/ BackfillToPgBegin
    \/ BackfillToPgCheck
    \/ BackfillToPgSetUnlogged
    \/ BackfillToPgDropIndexes
    \/ BackfillToPgRecv
    \/ BackfillToPgNotify
    \/ BackfillToPgFinishCopy
    \/ BackfillToPgCreateIndexes
    \/ BackfillToPgPopulateDids
    \/ BackfillToPgSetLogged
    \/ BackfillToPgCommit
    \/ MainGotLastAt
    \/ MainBulkJoined
    \/ PollCatchUp
    \/ GetPageFails
    \/ local_full_pages_recv
    \/ full_pages_send
    \/ local_full_pages_closed
    \/ PagesToPgRecv
    \/ PagesToPgEnd
    \/ MainSinkDone

SpecBackfill == InitBackfill /\ [][NextBackfill]_vars

\* the log the bundles of a bulk run are cut from; two ops to a timestamp
BulkLog == [k \in 1..(NumWeeks * BundleLen) |-> UpstreamOp(k, (k + 1) \div 2)]

\* every week's bundle file is full or empty
BulkBundleLens == [1..NumWeeks -> {0, BundleLen}]

\* the rows the tables may hold before a bulk run
OldOp == MkOp(NumDids + 1, NumWeeks * BundleLen + 1, 1, FALSE, 0)

OldStores ==
    {[operations |-> {}, dids |-> {}],
     [operations |-> {}, dids |-> {OldOp.did}],
     [operations |-> {OldOp}, dids |-> {OldOp.did}]}

\* backfill feeding a bulk sink: backfill_to_pg with or without reset over
\* each of the stores, or pages_to_stdout
InitBulk ==
    /\ upstream = BulkLog
    /\ main_pc = "run"
    /\ InitNoPoller
    /\ dest = <<>>
    /\ dest_cap = CATCHUP_CHANNEL_CAP
    /\ dest_rx_open = TRUE
    /\ feeder_open = FALSE
    /\ InitFilter("idle")
    /\ \E lens \in BulkBundleLens : bundles = BundlesOf(BulkLog, lens)
    /\ reset \in BOOLEAN
    /\ notify \in BOOLEAN
    /\ InitWorkers(NumWorkers)
    /\ AllReadable
    /\ \E pc \in {"idle", "stdout"} : InitBulkSink(pc)
    /\ InitNoMirror
    /\ InitNoWeek
    /\ InitNoFwd
    /\ \E old \in OldStores : operations = old.operations /\ dids = old.dids
    /\ bulk_pc = "stdout" => ~reset /\ operations = {} /\ dids = {}
    /\ ops_inserted = 0
    /\ dids_inserted = 0
    /\ sink_src = "fwd"
    /\ sink_pc = "idle"
    /\ pages_written = 0

NextBulk ==
    \/ \E w \in DOMAIN workers : WorkerPop(w)
    \/ \E w \in DOMAIN workers : WeekToPagesSend(w)
    \/ BackfillToPgBegin
    \/ BackfillToPgCheck
    \/ BackfillToPgSetUnlogged
    \/ BackfillToPgDropIndexes
    \/ BackfillToPgRecv
    \/ BackfillToPgNotify
    \/ BackfillToPgFinishCopy
    \/ BackfillToPgCreateIndexes
    \/ BackfillToPgPopulateDids
    \/ BackfillToPgSetLogged
    \/ BackfillToPgCommit
    \/ BackfillToPgFails
    \/ Crash
    \/ BulkToStdoutRecv
    \/ BulkToStdoutEnd

SpecBulk == InitBulk /\ [][NextBulk]_vars

\* how the bundles of a run may fail: any week may be missing or unreadable
BundleErrs == [1..NumWeeks -> {"none", "open", "read"}]

\* the stores a bulk load without reset may meet: clean, or in use
SourceStores ==
    {[operations |-> {}, dids |-> {}],
     [operations |-> {OldOp}, dids |-> {OldOp.did}]}

\* the bulk log with the first op of the second week under the key of the
\* first op of the first week
DupLog ==
    [BulkLog EXCEPT ![BundleLen + 1] =
        MkOp(BulkLog[1].did, BulkLog[1].cid, BulkLog[BundleLen + 1].created_at,
             FALSE, 0)]

\* Commands::Backfill into Postgres, with and without catch_up, over bundles
\* that may fail and with a loader that may end early
InitSource ==
    /\ upstream = BulkLog
    /\ notify \in BOOLEAN
    /\ main_pc = (IF notify THEN "await_last_at" ELSE "run")
    /\ InitNoPoller
    /\ dest = <<>>
    /\ dest_cap = CATCHUP_CHANNEL_CAP
    /\ dest_rx_open = TRUE
    /\ feeder_open = FALSE
    /\ InitFilter("idle")
    /\ \E log \in {BulkLog, DupLog} :
          bundles = BundlesOf(log, [w \in 1..NumWeeks |-> BundleLen])
    /\ bundle_err \in BundleErrs
    /\ reset = FALSE
    /\ InitWorkers(NumWorkers)
    /\ InitBulkSink("idle")
    /\ InitNoMirror
    /\ InitNoWeek
    /\ InitNoFwd
    /\ \E old \in SourceStores : operations = old.operations /\ dids = old.dids
    /\ ops_inserted = 0
    /\ dids_inserted = 0
    /\ sink_src = "fwd"
    /\ sink_pc = "idle"
    /\ pages_written = 0

NextSource ==
    \/ \E w \in DOMAIN workers : WorkerPop(w)
    \/ \E w \in DOMAIN workers : WeekToPagesSend(w)
    \/ BackfillReturns
    \/ BackfillToPgBegin
    \/ BackfillToPgCheck
    \/ BackfillToPgSetUnlogged
    \/ BackfillToPgDropIndexes
    \/ BackfillToPgRecv
    \/ BackfillToPgNotify
    \/ BackfillToPgFinishCopy
    \/ BackfillToPgCreateIndexes
    \/ BackfillToPgPopulateDids
    \/ BackfillToPgSetLogged
    \/ BackfillToPgCommit
    \/ BackfillToPgFails
    \/ MainGotLastAt
    \/ MainLastAtDropped
    \/ MainBulkJoined
    \/ MainReturns

SpecSource == InitSource /\ [][NextSource]_vars

\* a step of main in Commands::Backfill
MainSourceStep ==
    MainGotLastAt \/ MainLastAtDropped \/ MainBulkJoined \/ MainReturns

\* the same runs with main taking its step when it has one: a one-shot
\* receiver is woken when a value is sent and when the sender is dropped
SpecSourceFair == SpecSource /\ WF_vars(MainSourceStep)

\* Commands::Backfill with readable bundles over a clean store, with and
\* without catch_up, into Postgres or to stdout
InitPhaseA ==
    /\ upstream = BulkLog
    /\ notify \in BOOLEAN
    /\ main_pc = (IF notify THEN "await_last_at" ELSE "run")
    /\ InitNoPoller
    /\ dest = <<>>
    /\ dest_cap = CATCHUP_CHANNEL_CAP
    /\ dest_rx_open = TRUE
    /\ feeder_open = FALSE
    /\ InitFilter("idle")
    /\ bundles = BundlesOf(BulkLog, [w \in 1..NumWeeks |-> BundleLen])
    /\ reset = FALSE
    /\ InitWorkers(NumWorkers)
    /\ AllReadable
    /\ \E pc \in {"idle", "stdout"} : InitBulkSink(pc)
    /\ InitNoMirror
    /\ InitNoWeek
    /\ InitNoFwd
    /\ InitStore
    /\ sink_src = "fwd"
    /\ sink_pc = "idle"
    /\ pages_written = 0

\* a step of the task that runs backfill_to_pg
BackfillToPgStep ==
    \/ BackfillToPgBegin
    \/ BackfillToPgCheck
    \/ BackfillToPgSetUnlogged
    \/ BackfillToPgDropIndexes
    \/ BackfillToPgRecv
    \/ BackfillToPgNotify
    \/ BackfillToPgFinishCopy
    \/ BackfillToPgCreateIndexes
    \/ BackfillToPgPopulateDids
    \/ BackfillToPgSetLogged
    \/ BackfillToPgCommit

\* a step of the task that runs pages_to_stdout on the bulk channel
BulkToStdoutStep == BulkToStdoutRecv \/ BulkToStdoutEnd

\* a step of worker w
WorkerStep(w) == WorkerPop(w) \/ WeekToPagesSend(w)

\* a step of main in Commands::Backfill up to the end of the bulk phase
MainStep == MainGotLastAt \/ MainBulkJoined \/ MainReturns

NextPhaseA ==
    \/ \E w \in DOMAIN workers : WorkerStep(w)
    \/ BackfillReturns
    \/ BackfillToPgStep
    \/ BulkToStdoutStep
    \/ MainStep

\* the runtime polls every task that is ready, and main whenever it is
FairPhaseA ==
    /\ \A w \in 1..NumWorkers : WF_vars(WorkerStep(w))
    /\ WF_vars(BackfillReturns)
    /\ WF_vars(BackfillToPgStep)
    /\ WF_vars(BulkToStdoutStep)
    /\ WF_vars(MainStep)

SpecPhaseA == InitPhaseA /\ [][NextPhaseA]_vars /\ FairPhaseA

\* the backfill run with catch-up, full_pages of lib.rs as the filter of the
\* catch-up phase, each task taking its steps under fair scheduling
CatchUpWorkerStep(w) == WorkerPop(w) \/ WeekToPagesSend(w)

CatchUpMainStep == MainGotLastAt \/ MainBulkJoined \/ MainSinkDone

FullPagesStep == full_pages_recv \/ full_pages_send \/ full_pages_closed

PagesToPgStep == PagesToPgRecv \/ PagesToPgEnd

\* a step of any task of the run that the task takes when it is polled
CatchUpTaskStep ==
    \/ \E w \in DOMAIN workers : CatchUpWorkerStep(w)
    \/ BackfillToPgStep
    \/ CatchUpMainStep
    \/ PollCatchUp
    \/ FullPagesStep
    \/ PagesToPgStep

NextCatchUp == CatchUpTaskStep \/ GetPageFails

\* the runtime polls every task that is ready: the run does not stop while
\* a task has a step to take (no task of the run can take steps for ever, so
\* this is as strong as fairness to each task); a request that fails is the
\* upstream's doing and none is owed
FairCatchUp == WF_vars(CatchUpTaskStep)

SpecCatchUp == InitBackfill /\ [][NextCatchUp]_vars /\ FairCatchUp

\* one bundle of more lines than a page holds, the others short
PagedBundleLens(big) ==
    [w \in 1..NumWeeks |-> IF w = big THEN BUNDLE_PAGE_LEN + 1 ELSE BundleLen]

PagedLog(lens) ==
    [k \in 1..SumTo(lens, NumWeeks) |-> UpstreamOp(k, (k + 1) \div 2)]

\* backfill over such bundles, before the bulk sink has received a page
InitPaged ==
    /\ upstream = <<>>
    /\ main_pc = "run"
    /\ InitNoPoller
    /\ dest = <<>>
    /\ dest_cap = CATCHUP_CHANNEL_CAP
    /\ dest_rx_open = TRUE
    /\ feeder_open = FALSE
    /\ InitFilter("idle")
    /\ \E big \in 1..NumWeeks :
          bundles = BundlesOf(PagedLog(PagedBundleLens(big)),
                              PagedBundleLens(big))
    /\ reset = FALSE
    /\ notify = FALSE
    /\ InitWorkers(NumWorkers)
    /\ AllReadable
    /\ InitBulkSink("stdout")
    /\ InitNoMirror
    /\ InitNoWeek
    /\ InitNoFwd
    /\ InitStore
    /\ sink_src = "fwd"
    /\ sink_pc = "idle"
    /\ pages_written = 0

NextPaged ==
    \/ \E w \in DOMAIN workers : WorkerPop(w)
    \/ \E w \in DOMAIN workers : WeekToPagesSend(w)

SpecPaged == InitPaged /\ [][NextPaged]_vars

\* the mirror's run over a store with or without ops
InitMirror ==
    /\ upstream = <<>>
    /\ main_pc = "run"
    /\ InitNoPoller
    /\ dest = <<>>
    /\ dest_cap = TAIL_CHANNEL_CAP
    /\ dest_rx_open = TRUE
    /\ feeder_open = FALSE
    /\ InitFilter("idle")
    /\ InitNoBulk
    /\ InitNoWeek
    /\ InitNoFwd
    /\ tasks = <<>>
    /\ join_queue = <<>>
    /\ run_pc = "setup"
    /\ \E old \in OldStores : operations = old.operations /\ dids = old.dids
    /\ ops_inserted = 0
    /\ dids_inserted = 0
    /\ sink_src = "dest"
    /\ sink_pc = "idle"
    /\ pages_written = 0

NextMirror ==
    \/ MirrorSetup
    \/ MirrorSpawn
    \/ \E i \in DOMAIN tasks : TaskEnds(i)
    \/ JoinNext

SpecMirror == InitMirror /\ [][NextMirror]_vars

\* the timestamps a Dt is drawn from: the first, second and last second of
\* the weeks either side of the epoch
DtInputs ==
    {w + off : w \in WeekStarts, off \in {0, 1, WEEK_IN_SECONDS - 1}}

\* the clock readings: a second before, at and after the moment a week
\* has been over for 73 hours
NowInputs ==
    {w + CUTOFF_HOURS * HOUR_IN_SECONDS + d : w \in WeekStarts,
                                              d \in {-1, 0, 1}}

\* the Week functions applied to a Dt at a time of the clock
InitWeek ==
    /\ upstream = <<>>
    /\ main_pc = "run"
    /\ InitNoPoller
    /\ dest = <<>>
    /\ dest_cap = TAIL_CHANNEL_CAP
    /\ dest_rx_open = TRUE
    /\ feeder_open = FALSE
    /\ InitFilter("idle")
    /\ InitNoBulk
    /\ tasks = <<>>
    /\ join_queue = <<>>
    /\ run_pc = "idle"
    /\ InitNoFwd
    /\ wk_now \in NowInputs
    /\ wk_dt \in DtInputs
    /\ wk_week = None
    /\ wk_back = None
    /\ wk_immutable = None
    /\ wk_range = None
    /\ InitStore
    /\ sink_src = "dest"
    /\ sink_pc = "idle"
    /\ pages_written = 0

NextWeek ==
    \/ WeekFrom
    \/ DtFrom
    \/ IsImmutable
    \/ WeekRange

SpecWeek == InitWeek /\ [][NextWeek]_vars

\* ----------------------------------------------------------- PageForwarder
\* backfill.rs: a Write that cuts the bytes it is given into pages of N lines.
\* A string is a sequence of bytes; the model has the newline and the two
\* braces of a JSON line.
NL == "\n"
ByteSet == {NL, "{", "}"}

ByteStrings(n) == UNION {[1..m -> ByteSet] : m \in 0..n}

\* str::trim: leading and trailing whitespace removed
RECURSIVE trim_start(_)
trim_start(str) ==
    IF str # <<>> /\ Head(str) = NL THEN trim_start(Tail(str)) ELSE str

RECURSIVE trim_end(_)
trim_end(str) ==
    IF str # <<>> /\ str[Len(str)] = NL
    THEN trim_end(SubSeq(str, 1, Len(str) - 1))
    ELSE str

trim(str) == trim_end(trim_start(str))

\* str::replace("}{", "}\n{"): every match, left to right
RECURSIVE replace(_)
replace(str) ==
    IF Len(str) < 2 THEN str
    ELSE IF str[1] = "}" /\ str[2] = "{"
         THEN <<"}", NL, "{">> \o replace(SubSeq(str, 3, Len(str)))
         ELSE <<str[1]>> \o replace(Tail(str))

\* buf.iter().filter(|&&b| b == b'\n').count()
CountNewlines(buf) == Cardinality({i \in 1..Len(buf) : buf[i] = NL})

\* buf.iter().enumerate().filter(newline).nth(n): the index, counted from
\* one, of the newline that has n newlines of buf before it
NthNewline(buf, n) ==
    LET at == {i \in 1..Len(buf) :
                  buf[i] = NL /\ CountNewlines(SubSeq(buf, 1, i - 1)) = n}
    IN IF at = {} THEN None ELSE Some(CHOOSE i \in at : TRUE)

\* PageForwarder::send_page on the buffer `page_bytes`: what is sent, if
\* anything, and the line count it leaves
send_page(page_bytes, newlines) ==
    IF page_bytes # <<>>
    THEN [sent |-> Some(replace(trim(page_bytes))), newlines |-> 0]
    ELSE [sent |-> None, newlines |-> newlines]

\* a caller hands `buf` to write
WriteCall ==
    /\ pf_buf = None
    /\ \E buf \in ByteStrings(pf_left) :
         /\ pf_buf' = Some(buf)
         /\ pf_left' = pf_left - Len(buf)
    /\ UNCHANGED <<pf_N, pf_newlines, pf_bytes, pf_dest, fwdFrame>>

\* one iteration of the loop of write: a page is complete at the next split,
\* or the rest of buf is kept as a partial page and write returns
WriteLoop ==
    /\ IsSome(pf_buf)
    /\ LET buf == Unwrap(pf_buf)
           newlines_to_next_split == pf_N - 1 - pf_newlines
           found == NthNewline(buf, newlines_to_next_split)
       IN IF IsSome(found)
          THEN LET i == Unwrap(found)
                   page_rest == SubSeq(buf, 1, i - 1)
                   rest == SubSeq(buf, i, Len(buf))
                   r == send_page(pf_bytes \o page_rest, pf_newlines)
               IN /\ pf_bytes' = <<>>
                  /\ pf_newlines' = r.newlines
                  /\ pf_dest' = pf_dest \o r.sent
                  /\ pf_buf' = Some(rest)
          ELSE /\ pf_bytes' = pf_bytes \o buf
               /\ pf_newlines' = pf_newlines + CountNewlines(buf)
               /\ pf_buf' = None
               /\ UNCHANGED pf_dest
    /\ UNCHANGED <<pf_N, pf_left, fwdFrame>>

\* flush
Flush ==
    /\ pf_buf = None
    /\ LET r == send_page(pf_bytes, pf_newlines)
       IN /\ pf_bytes' = <<>>
          /\ pf_newlines' = r.newlines
          /\ pf_dest' = pf_dest \o r.sent
    /\ UNCHANGED <<pf_N, pf_buf, pf_left, fwdFrame>>

\* PageForwarder::<N>::new(dest), for each N explored
InitFwd ==
    /\ upstream = <<>>
    /\ main_pc = "run"
    /\ InitNoPoller
    /\ dest = <<>>
    /\ dest_cap = TAIL_CHANNEL_CAP
    /\ dest_rx_open = TRUE
    /\ feeder_open = FALSE
    /\ InitFilter("idle")
    /\ InitNoBulk
    /\ InitNoMirror
    /\ InitNoWeek
    /\ pf_N \in 1..MaxFwdN
    /\ pf_newlines = 0
    /\ pf_bytes = <<>>
    /\ pf_dest = <<>>
    /\ pf_buf = None
    /\ pf_left = MaxFwdBytes
    /\ InitStore
    /\ sink_src = "dest"
    /\ sink_pc = "idle"
    /\ pages_written = 0

NextFwd ==
    \/ WriteCall
    \/ WriteLoop
    \/ Flush

SpecFwd == InitFwd /\ [][NextFwd]_vars

\* ================================================================== claims
\* the ops the poller has put, or is putting, on its channel, in send order
Output ==
    Flatten(sent) \o (IF IsSome(pending) THEN Unwrap(pending).page ELSE <<>>)

\* the keys of the ops of `ops` at the largest createdAt of `ops`
KeysAtMax(ops) ==
    {OpKey(op) : op \in {o \in Range(ops) :
                            \A q \in Range(ops) : q.created_at <= o.created_at}}

Without(page, keys) == SelectSeq(page, LAMBDA op : OpKey(op) \notin keys)

\* the concatenation of the fetched pages, each less the ops whose key was in
\* the immediately preceding page at that page's largest createdAt
MinusPrecedingPage ==
    Flatten([i \in 1..Len(fetched) |->
        IF i = 1 THEN fetched[i]
        ELSE Without(fetched[i], KeysAtMax(fetched[i - 1]))])

\* the concatenation of the fetched pages, each less the ops whose key was in
\* any earlier page at the largest createdAt of all earlier pages
MinusEarlierPages ==
    Flatten([i \in 1..Len(fetched) |->
        Without(fetched[i], KeysAtMax(Flatten(SubSeq(fetched, 1, i - 1))))])

C2_NoOpSentTwice ==
    \A i, j \in 1..Len(Output) :
        i # j => OpKey(Output[i]) # OpKey(Output[j])

\* two pages in a row deduplicated to nothing, after a page that was sent
C2_Witness ==
    /\ Len(fetched) = 3
    /\ Len(fetched[2]) >= 2
    /\ Len(fetched[3]) >= 2
    /\ Len(sent) = 1
    /\ pending = None

\* C3: an op of a fetched page whose createdAt equals last_at and whose OpKey
\* is not in keys_at is kept in the page, and the page is sent.
C3_DedupCompleteness ==
    IsSome(last_iter) /\ IsSome(Unwrap(last_iter).pre) =>
        LET it == Unwrap(last_iter)
            pre == Unwrap(it.pre)
        IN \A i \in 1..Len(it.raw) :
              (/\ it.raw[i].created_at = pre.last_at
               /\ OpKey(it.raw[i]) \notin Range(pre.keys_at))
              => /\ it.raw[i] \in Range(it.out)
                 /\ IF IsSome(pending) THEN Unwrap(pending).page = it.out
                    ELSE sent # <<>> /\ Last(sent) = it.out

\* a page with a new op at last_at before and after a dropped duplicate
C3_Witness ==
    /\ IsSome(last_iter)
    /\ IsSome(Unwrap(last_iter).pre)
    /\ LET it == Unwrap(last_iter)
           pre == Unwrap(it.pre)
       IN /\ Len(it.raw) = 3
          /\ \A i \in 1..3 : it.raw[i].created_at = pre.last_at
          /\ it.out = <<it.raw[1], it.raw[3]>>
          /\ sent # <<>> /\ Last(sent) = it.out

NonDecreasing(ops) ==
    \A i \in 1..(Len(ops) - 1) : ops[i].created_at <= ops[i + 1].created_at

\* a is b with some elements deleted, the others in b's order
RECURSIVE IsSubsequence(_, _)
IsSubsequence(a, b) ==
    IF a = <<>> THEN TRUE
    ELSE IF b = <<>> THEN FALSE
    ELSE IF Head(a) = Head(b) THEN IsSubsequence(Tail(a), Tail(b))
    ELSE IsSubsequence(a, Tail(b))

\* C4: the ops sent, read across all sent pages in send order, are
\* non-decreasing in createdAt and stand in the order of the fetched pages:
\* dedup deletes ops and reorders none, within a page or across pages.
C4_OrderPreserved ==
    /\ NonDecreasing(Output)
    /\ IsSubsequence(Output, Flatten(fetched))
    /\ IsSome(last_iter) =>
          IsSubsequence(Unwrap(last_iter).out, Unwrap(last_iter).raw)

\* a duplicate was removed in front of two ops that stayed
C4_Witness ==
    /\ IsSome(last_iter)
    /\ Len(Unwrap(last_iter).raw) = 3
    /\ Unwrap(last_iter).out = Tail(Unwrap(last_iter).raw)
    /\ Len(sent) >= 2

\* C5: last_at of the boundary state never decreases, whatever pages are
\* applied, and the state, once there, stays.
C5_LastAtMonotone ==
    [][IsSome(boundary_state) =>
          /\ IsSome(boundary_state')
          /\ Unwrap(boundary_state').last_at >= Unwrap(boundary_state).last_at]_vars

\* a page that ended before last_at was applied, and last_at stayed
C5_Witness ==
    /\ IsSome(last_iter)
    /\ IsSome(Unwrap(last_iter).pre)
    /\ Unwrap(last_iter).raw # <<>>
    /\ Last(Unwrap(last_iter).raw).created_at < Unwrap(Unwrap(last_iter).pre).last_at
    /\ Unwrap(boundary_state).last_at = Unwrap(Unwrap(last_iter).pre).last_at

\* C6 as stated: whenever a fetched page holds an op whose createdAt is
\* earlier than last_at, the poller halts on the assertion.
C6_BackwardsTimeHalts ==
    IsSome(last_iter) /\ IsSome(Unwrap(last_iter).pre) =>
        LET it == Unwrap(last_iter)
        IN (\E op \in Range(it.raw) :
                op.created_at < Unwrap(it.pre).last_at)
           => poller_pc = "panicked"

\* ------------------------------------------------------------ C7, C8
\* how many pages come before the first page of fewer than 900 ops
FullPrefixLen(pages) ==
    LET small == {i \in 1..Len(pages) : Len(pages[i]) < 900}
    IN IF small = {} THEN Len(pages)
       ELSE (CHOOSE i \in small : \A j \in small : i <= j) - 1

\* the pages the filter has taken off its input and is done with
FilterTaken == consumed - (IF filter_pc = "sending" THEN 1 ELSE 0)

\* C7: the pages the full-pages filter has forwarded are, in input order, the
\* input pages before the first one of fewer than 900 ops, as far as the
\* filter has got; once it has received that small page it has forwarded
\* exactly that prefix, the small page is consumed without being forwarded,
\* the filter's sender of the output channel is dropped, and the sink
\* receives no page beyond the prefix
C7_ForwardsLongestFullPrefix ==
    LET k == FullPrefixLen(sent)
        done == IF FilterTaken < k THEN FilterTaken ELSE k
    IN /\ forwarded = SubSeq(sent, 1, done)
       /\ pages_written <= k
       /\ filter_pc = "ok" =>
             /\ forwarded = SubSeq(sent, 1, k)
             /\ consumed = k + 1
             /\ Len(sent[consumed]) < 900
             /\ FilterGone
             /\ fwd = SubSeq(forwarded, pages_written + 1, k)

\* input sizes [1000, 1000, 850]: the first two pages reached the sink, the
\* third was consumed, and the sink saw the output channel close
C7_Witness ==
    /\ filter_pc = "ok"
    /\ Len(sent) = 3
    /\ Len(sent[1]) = 1000 /\ Len(sent[2]) = 1000 /\ Len(sent[3]) = 850
    /\ forwarded = SubSeq(sent, 1, 2)
    /\ pages_written = 2
    /\ sink_pc = "done"

\* C8: the filter has ended with success exactly when the last page it
\* received has fewer than 900 ops, whatever the age of that page's last op
\* and also when the page is empty; it has ended with an error exactly when
\* every page it received has at least 900 ops and its input is closed and
\* drained; while it runs it has received no page of fewer than 900 ops
C8_FilterOutcome ==
    LET got_small == consumed >= 1 /\ Len(sent[consumed]) < 900
    IN /\ filter_pc \in {"recv", "sending", "ok", "err"}
       /\ (filter_pc = "ok") = got_small
       /\ filter_pc = "ok" =>
             (sent[consumed] = <<>>) = (filter_log = "info: empty final page")
       /\ filter_pc = "ok" =>
             filter_log \in {"info: empty final page", "info: final page",
                             "warn: small page, but old"}
       /\ filter_pc = "err" =>
             /\ consumed = Len(sent)
             /\ \A i \in 1..Len(sent) : Len(sent[i]) >= 900
             /\ ~feeder_open

\* the filter ended with success on a small page whose last op is older than
\* six hours, after forwarding a page of exactly 900 ops
C8_Witness ==
    /\ filter_pc = "ok"
    /\ filter_log = "warn: small page, but old"
    /\ consumed = 2
    /\ Len(sent[1]) = 900
    /\ Len(forwarded) = 1

\* ---------------------------------------------------------------- C9
BundleOps == UNION {Range(Bundle(w)) : w \in 1..NumWeeks}

OpsOf(pages) == UNION {Range(pages[i]) : i \in 1..Len(pages)}

StoredKeys == {OpKey(r) : r \in operations}

LocalFullPrefixLen(pages) ==
    LET small == {i \in 1..Len(pages) : Len(pages[i]) <= 900}
    IN IF small = {} THEN Len(pages)
       ELSE (CHOOSE i \in small : \A j \in small : i <= j) - 1

C10_IdempotentWrites ==
    [][pages_written' = pages_written + 1 =>
        LET page == sent[pages_written + 1]
            new_keys == {OpKey(op) : op \in Range(page)} \ StoredKeys
            new_dids == {op.did : op \in Range(page)} \ dids
        IN /\ operations \subseteq operations'
           /\ operations' \subseteq operations \cup Range(page)
           /\ Cardinality(operations') =
                 Cardinality(operations) + Cardinality(new_keys)
           /\ {OpKey(r) : r \in operations'} = StoredKeys \cup new_keys
           /\ dids' = dids \cup new_dids
           /\ ops_inserted' = ops_inserted + Cardinality(new_keys)
           /\ dids_inserted' = dids_inserted + Cardinality(new_dids)
           /\ (\E k \in 1..pages_written : sent[k] = page) =>
                 /\ operations' = operations
                 /\ dids' = dids
                 /\ ops_inserted' = ops_inserted
                 /\ dids_inserted' = dids_inserted
      ]_vars

\* a page of two ops with one (did, cid) and a third op was played twice:
\* two rows came of it
C10_Witness ==
    /\ pages_written = 3
    /\ sent[1] = sent[2]
    /\ Len(sent[1]) = 2
    /\ sent[1][1] # sent[1][2]
    /\ OpKey(sent[1][1]) = OpKey(sent[1][2])
    /\ sent[3] # sent[1]
    /\ Cardinality(operations) = 2
    /\ ops_inserted = 2

\* ---------------------------------------------------------------- C11
\* the tables hold rows that a load without reset must not touch
TablesInUse == ~reset /\ (operations # {} \/ dids # {})

\* C11: backfill_to_pg gets past its table check only when reset is set or
\* both tables are empty, and then both tables are empty in its
\* transaction; when a table holds rows and reset is not set it panics
\* there, with no table set unlogged, no index dropped and no row
\* copied, the store stays as it was and the load never goes on
C11_BackfillPrecondition ==
    [][/\ bulk_pc' \in InTransaction \ {"check"} => ~TablesInUse
       /\ (bulk_pc' = "unlog" /\ IsSome(txn')) =>
             Unwrap(txn').operations = {} /\ Unwrap(txn').dids = {}
       /\ (bulk_pc = "check" /\ TablesInUse /\ bulk_pc' # bulk_pc) =>
             /\ bulk_pc' \in {"panicked", "failed"}
             /\ Unwrap(txn).unlogged = {}
             /\ Unwrap(txn).indexes = schema.indexes
             /\ copy_buf' = <<>>
             /\ txn' = None
             /\ UNCHANGED <<operations, dids, schema>>
       /\ bulk_pc' = "panicked" =>
             bulk_pc = "panicked" \/ (bulk_pc = "check" /\ TablesInUse)
       /\ bulk_pc = "panicked" =>
             UNCHANGED <<bulk_pc, txn, operations, dids, schema, copy_buf>>
      ]_vars

\* the loader panicked over a dids table that held a row while operations
\* was empty
C11_Witness ==
    /\ bulk_pc = "panicked"
    /\ operations = {}
    /\ dids # {}
    /\ schema = ReferenceSchema

\* ---------------------------------------------------------------- C12
\* backfill_to_pg ended without committing: an error, the panic of the
\* table check, or the death of the process
Aborted == bulk_pc \in {"failed", "panicked"} \/ main_pc = "crashed"

\* both named indexes exist and both tables are logged
SchemaConsistent ==
    /\ {IDX_CREATED_AT, IDX_DID_CREATED_AT} \subseteq schema.indexes
    /\ schema.unlogged = {}

\* C12 as stated: after a failure or crash before commit both indexes
\* exist, both tables are logged and both tables are empty
C12_RevertsToEmpty ==
    Aborted => SchemaConsistent /\ operations = {} /\ dids = {}

\* C12: the store and the schema change in no step of backfill_to_pg but
\* its commit; a failure or crash at any step before it ends the
\* transaction, leaves both indexes in place, both tables logged and in
\* both tables the rows they held before the run, and nothing changes them
\* afterwards
C12_Atomicity ==
    [][/\ (operations' # operations \/ dids' # dids \/ schema' # schema) =>
             bulk_pc = "commit" /\ bulk_pc' = "done"
       /\ bulk_pc' # "done" => SchemaConsistent'
       /\ Aborted' => txn' = None /\ UNCHANGED <<operations, dids, schema>>
       /\ Aborted => Aborted'
      ]_vars

\* the process died after the COPY, the indexes and the dids of a load
\* with reset over tables that held rows: the rows are still there
C12_Witness ==
    /\ main_pc = "crashed"
    /\ bulk_pc = "set_logged"
    /\ reset
    /\ copy_buf # <<>>
    /\ operations = {OldOp}
    /\ dids = {OldOp.did}
    /\ SchemaConsistent

\* ---------------------------------------------------------------- C13
\* the indexes the reference server targets by name
NamedIndexes ==
    {[name |-> "operations_createdAt_index", cols |-> <<"createdAt">>],
     [name |-> "operations_did_createdat_idx", cols |-> <<"did", "createdAt">>]}

\* C13: in every state where backfill_to_pg has committed, the store has
\* the index "operations_createdAt_index" on (createdAt) and the index
\* operations_did_createdat_idx on (did, createdAt), no other index, and
\* both tables logged; the committed schema is the same in every state
\* before, dropped indexes and unlogged tables being seen only in the
\* transaction while it is open, and the transaction about to commit has
\* the indexes and logged tables too
C13_SchemaRestored ==
    /\ schema.indexes = NamedIndexes
    /\ schema.unlogged = {}
    /\ IsSome(txn) => bulk_pc \in InTransaction
    /\ bulk_pc = "commit" /\ IsSome(txn) =>
          Unwrap(txn).indexes = NamedIndexes /\ Unwrap(txn).unlogged = {}

\* a load of every bundle committed
C13_Witness ==
    /\ bulk_pc = "done"
    /\ Cardinality(operations) = NumWeeks * BundleLen
    /\ dids # {}
    /\ schema = ReferenceSchema

\* ---------------------------------------------------------------- C14
\* the ops of the pages put on the bulk channel, in channel order
BulkSentOps == Flatten([i \in 1..Len(bulk_sent) |-> bulk_sent[i].ops])

\* C14: in every state where backfill_to_pg has committed, the bulk
\* channel is closed and empty, the operations table holds exactly the ops
\* that were received on it, one row for each, and the dids table holds
\* exactly the distinct did values of the operations table
C14_TablesAfterCommit ==
    bulk_pc = "done" =>
        /\ bulk = <<>> /\ BulkSendersGone
        /\ copy_buf = BulkSentOps
        /\ operations = Range(copy_buf)
        /\ Cardinality(operations) = Len(copy_buf)
        /\ dids = {op.did : op \in operations}

\* a load with reset committed over tables that held a row of another did:
\* every bundle op is a row, the dids are those of the bundles
C14_Witness ==
    /\ bulk_pc = "done"
    /\ reset
    /\ Len(copy_buf) = NumWeeks * BundleLen
    /\ Cardinality(dids) = NumDids
    /\ Cardinality(operations) > Cardinality(dids)
    /\ OldOp \notin operations
    /\ OldOp.did \notin dids
    /\ week_log # <<>> /\ week_log[1].week = 1 /\ bulk_sent[1].week # 1

\* ---------------------------------------------------------------- C15
\* the largest createdAt of a sequence of ops, None when it is empty
MaxCreatedAt(ops) ==
    IF ops = <<>> THEN None
    ELSE Some(CHOOSE t \in {op.created_at : op \in Range(ops)} :
                 \A op \in Range(ops) : op.created_at <= t)

\* C15: the value a bulk sink, backfill_to_pg or pages_to_stdout, has sent
\* on the one-shot is the largest createdAt of the ops of the pages it
\* received, in whatever order the pages of different weeks came, and None
\* when it received no op; it sends one only when a sender was given
C15_HandoffValue ==
    /\ IsSome(rx_last) => notify /\ Unwrap(rx_last) = MaxCreatedAt(copy_buf)
    /\ (notify /\ bulk_pc \in {"copy", "stdout"}) =>
          bulk_last_at = MaxCreatedAt(copy_buf)

\* the loader sent the createdAt of the second week's ops, whose page it
\* received before the page of the first week
C15_Witness ==
    /\ bulk_pc = "finishing"
    /\ IsSome(rx_last)
    /\ Len(bulk_sent) = 2
    /\ bulk_sent[1].week = 2
    /\ bulk_sent[2].week = 1
    /\ Unwrap(rx_last) = Some(Last(bulk_sent[1].ops).created_at)
    /\ Last(bulk_sent[1].ops).created_at > Last(copy_buf).created_at

\* ---------------------------------------------------------------- C16
\* the positions of backfill_to_pg after its send on the one-shot
AfterNotify ==
    {"finishing", "create_idx", "dids", "set_logged", "commit", "done"}

\* C16: backfill_to_pg sends on the one-shot at most once, and once when
\* it was given a sender and got past its receive loop; at the send the
\* bulk channel is closed and empty and every op put on it has been
\* written to the COPY stream, while the COPY is not finished (the table
\* in the transaction holds no row), the indexes are not recreated and
\* nothing is committed
C16_HandoffTiming ==
    [][/\ notifications' <= 1
       /\ (notify /\ bulk_pc' \in AfterNotify) =>
             notifications' = 1 /\ IsSome(rx_last')
       /\ ((notifications' # notifications \/ rx_last' # rx_last) /\
            bulk_pc # "stdout") =>
             /\ notify
             /\ notifications = 0 /\ ~IsSome(rx_last)
             /\ notifications' = 1 /\ IsSome(rx_last')
             /\ bulk = <<>> /\ BulkSendersGone
             /\ copy_buf = BulkSentOps
             /\ bulk_pc = "copy" /\ bulk_pc' = "finishing"
             /\ Unwrap(txn').operations = {}
             /\ Unwrap(txn').indexes \cap NamedIndexes = {}
             /\ UNCHANGED <<operations, dids, schema>>
      ]_vars

\* the loader has sent last_at after writing every bundle op to the COPY
\* stream and has not finished the COPY
C16_Witness ==
    /\ bulk_pc = "finishing"
    /\ notifications = 1
    /\ IsSome(rx_last) /\ IsSome(Unwrap(rx_last))
    /\ Len(copy_buf) = NumWeeks * BundleLen
    /\ Unwrap(txn).operations = {}
    /\ operations = {}

\* ---------------------------------------------------------------- C17
\* C17: the catch-up poller leaves its idle position only when the bulk
\* sink has sent last_at on the one-shot, and then with `after` set to the
\* value sent; a poller that runs has that value behind it and fetches no
\* op from before it
C17_PhaseHandoff ==
    [][/\ (poller_pc = "idle" /\ poller_pc' # "idle") =>
             /\ IsSome(rx_last) /\ notifications = 1
             /\ prev_last' = (IF IsSome(Unwrap(rx_last))
                              THEN Some(LastOpFromDt(Unwrap(Unwrap(rx_last))))
                              ELSE None)
             /\ RequestAfter(prev_last') = Unwrap(rx_last)
             /\ polls' = 0
       /\ poller_pc' # "idle" => IsSome(rx_last')
       /\ polls' > polls =>
             \A op \in Range(Last(fetched')) :
                 IsSome(Unwrap(rx_last)) =>
                     op.created_at >= Unwrap(Unwrap(rx_last))
      ]_vars

\* the poller has fetched a page while the loader, its last_at sent, is
\* still recreating the indexes
C17_Witness ==
    /\ bulk_pc = "create_idx"
    /\ IsSome(txn)
    /\ operations = {}
    /\ polls >= 1
    /\ fetched[1] # <<>>
    /\ IsSome(rx_last)

\* ---------------------------------------------------------------- C18
\* the outcomes of a task that make run fail
Failures == {"panic", "cancelled", "err"}

\* what run returns for a failed task
FailureOf(out) ==
    IF out = "panic" THEN "err_panic"
    ELSE IF out = "cancelled" THEN "err_join"
    ELSE "err_task"

\* C18: when join_next yields a task that ended with a panic, a join
\* failure or a returned error, run returns that failure in the same step,
\* whatever the other tasks are doing, and every task joined before it had
\* ended successfully; when it yields a task that ended successfully the
\* loop goes on; run returns success only when every spawned task was
\* joined and had ended successfully
C18_TaskSupervision ==
    [][/\ (run_pc = "joining" /\ join_queue # <<>> /\
           (run_pc' # run_pc \/ Len(join_queue') < Len(join_queue))) =>
             LET out == tasks[Head(join_queue)].state
             IN /\ out \in Failures => run_pc' = FailureOf(out)
                /\ out = "ok" =>
                      run_pc' = "joining" /\ join_queue' = Tail(join_queue)
       /\ run_pc' \in {"joining", "ok"} =>
             \A i \in DOMAIN tasks' : tasks'[i].joined => tasks'[i].state = "ok"
       /\ run_pc' \in {"err_panic", "err_join", "err_task"} =>
             \E i \in DOMAIN tasks' :
                 /\ tasks'[i].joined
                 /\ run_pc' = FailureOf(tasks'[i].state)
                 /\ tasks'[i].state \in Failures
                 /\ \A j \in DOMAIN tasks' \ {i} :
                       tasks'[j].joined => tasks'[j].state = "ok"
       /\ run_pc' = "ok" =>
             /\ Len(tasks') = Len(MirrorTasks)
             /\ \A i \in DOMAIN tasks' :
                   tasks'[i].joined /\ tasks'[i].state = "ok"
      ]_vars

\* serve ended successfully and was joined, then poll_upstream returned an
\* error: run returned it while pages_to_pg was still running
C18_Witness ==
    /\ run_pc = "err_task"
    /\ Len(tasks) = 3
    /\ tasks[3].state = "ok" /\ tasks[3].joined
    /\ tasks[1].state = "err" /\ tasks[1].joined
    /\ tasks[2].state = "aborted"

\* ---------------------------------------------------------------- C19
\* the ops of week w put on the bulk channel, in channel order
WeekSentOps(w) ==
    LET of_week(e) == e.week = w
        sel == SelectSeq(bulk_sent, of_week)
    IN Flatten([i \in 1..Len(sel) |-> sel[i].ops])

\* the weeks of the range
Weeks == 1..Len(bundles)

\* C19: with the workers popping the shared queue in any interleaving, no
\* week is popped twice, every week of the range is either still queued or
\* was popped, and a week's ops are put on the bulk channel by the worker
\* that popped it only; when every worker has ended and no error cut the
\* run short, every week was popped once and the ops of its bundle were
\* put on the channel once
C19_WorkQueue ==
    /\ \A i, j \in 1..Len(week_log) :
          week_log[i].week = week_log[j].week => i = j
    /\ \A i, j \in 1..Len(week_queue) :
          week_queue[i] = week_queue[j] => i = j
    /\ {week_log[i].week : i \in 1..Len(week_log)} \cap Range(week_queue) = {}
    /\ {week_log[i].week : i \in 1..Len(week_log)} \cup Range(week_queue)
          = Weeks
    /\ \A i \in 1..Len(bulk_sent) :
          \E k \in 1..Len(week_log) : week_log[k].week = bulk_sent[i].week
    /\ \A w \in DOMAIN workers :
          workers[w].pc = "send" =>
              \E k \in 1..Len(week_log) :
                  /\ week_log[k] = [worker |-> w, week |-> workers[w].week]
                  /\ \A l \in (k + 1)..Len(week_log) : week_log[l].worker # w
    /\ BulkSendersGone /\ worker_errs = <<>> =>
          /\ Len(week_log) = Len(bundles)
          /\ \A w \in Weeks : WeekSentOps(w) = Bundle(w)

\* two workers have emptied the queue between them, each taking a week
C19_Witness ==
    /\ BulkSendersGone
    /\ Len(week_log) = NumWeeks
    /\ week_log[1].worker # week_log[2].worker
    /\ \A w \in Weeks : Bundle(w) # <<>> /\ WeekSentOps(w) = Bundle(w)

\* ---------------------------------------------------------------- C20
IsPrefix(a, b) == Len(a) <= Len(b) /\ a = SubSeq(b, 1, Len(a))

\* C20: for every week, the ops of that week that were put on the bulk
\* channel, taken in channel order across its pages, are the first lines
\* of the week's bundle file in file order, whatever pages of other weeks
\* lie between them; each page but the bundle's last holds 10000 ops; the
\* channel holds the pages in the order they were put on it
C20_PerBundleOrder ==
    /\ \A w \in Weeks : IsPrefix(WeekSentOps(w), Bundle(w))
    /\ \A i \in 1..Len(bulk_sent) :
          \/ Len(bulk_sent[i].ops) = BUNDLE_PAGE_LEN
          \/ \A j \in (i + 1)..Len(bulk_sent) :
                bulk_sent[j].week # bulk_sent[i].week
    /\ Len(bulk) <= Len(bulk_sent)
    /\ \A i \in 1..Len(bulk) :
          bulk[i] = bulk_sent[Len(bulk_sent) - Len(bulk) + i].ops

\* the two pages of the long bundle are on the channel, a page of another
\* week between them
C20_Witness ==
    /\ Len(bulk_sent) = 3
    /\ bulk_sent[1].week = bulk_sent[3].week
    /\ bulk_sent[2].week # bulk_sent[1].week
    /\ Len(bulk_sent[1].ops) = BUNDLE_PAGE_LEN
    /\ Len(bulk_sent[3].ops) = 1
    /\ bulk_sent[3].ops[1] = Last(Bundle(bulk_sent[1].week))
    /\ Len(bulk) = 3

\* ---------------------------------------------------------------- C21
\* the weeks whose bundle cannot be opened or read
BadWeeks == {k \in Weeks : bundle_err[k] /= "none"}

\* the worker that popped week k, as a set
PoppedBy(k) == {week_log[i].worker : i \in {j \in DOMAIN week_log :
                                                week_log[j].week = k}}

PhaseADone ==
    /\ WorkersEnded
    /\ worker_errs = <<>>
    /\ bulk = <<>>
    /\ bulk_pc \in {"done", "printed"}
    /\ bulk_pc = "done" =>
          operations = UNION {Range(Bundle(k)) : k \in Weeks}

\* C22: with every bundle readable, a clean store and no statement failing,
\* under fair scheduling of the workers, the sink and main, the bulk phase
\* eventually ends with success
C22_PhaseATerminates == <>PhaseADone

\* the same when catch_up was asked for: main awaits the sink
PhaseATerminatesWithCatchUp == notify => <>PhaseADone

\* ---------------------------------------------------------------- C23
\* t rounded down to the week
FloorWeek(t) == (t \div WEEK_IN_SECONDS) * WEEK_IN_SECONDS

\* C23: for every timestamp t, negative ones included, Week::from(t) is a
\* multiple of 604800, is at most t, is less than 604800 below t, and
\* Dt::from of it is t rounded down to the week
C23_WeekRoundTrip ==
    IsSome(wk_week) =>
        /\ Unwrap(wk_week) % WEEK_IN_SECONDS = 0
        /\ Unwrap(wk_week) <= wk_dt
        /\ wk_dt - Unwrap(wk_week) < WEEK_IN_SECONDS
        /\ IsSome(wk_back) => Unwrap(wk_back) = FloorWeek(wk_dt)

\* the same for the timestamps from the epoch on, and what the code returns
\* before it: t rounded up to the week
WeekRoundTripFromEpoch ==
    IsSome(wk_week) =>
        /\ Unwrap(wk_week) % WEEK_IN_SECONDS = 0
        /\ wk_dt >= 0 => Unwrap(wk_week) = FloorWeek(wk_dt)
        /\ wk_dt < 0 => Unwrap(wk_week) = -FloorWeek(-wk_dt)
        /\ IsSome(wk_back) => Unwrap(wk_back) = Unwrap(wk_week)

\* ---------------------------------------------------------------- C24
\* how long ago the week computed ended (negative while it lasts)
EndedAgo == wk_now - Week_next(Unwrap(wk_week))

SEVENTY_THREE_HOURS == CUTOFF_HOURS * HOUR_IN_SECONDS

WeekRangeUnboundedWitness ==
    /\ IsSome(wk_range)
    /\ Unwrap(wk_range).start.kind = "included"
    /\ Unwrap(wk_range).end.kind = "unbounded"
    /\ IsSome(Unwrap(wk_range).out)
    /\ Len(Unwrap(Unwrap(wk_range).out)) = 2
    /\ Week_next(Last(Unwrap(Unwrap(wk_range).out))) + SEVENTY_THREE_HOURS
          = wk_now

\* ---------------------------------------------------------------- C26
EmptyStore == [operations |-> {}, dids |-> {}, ops_inserted |-> 0,
               dids_inserted |-> 0]

\* the store after the transactions of the first n pages, one to a page
RECURSIVE StoreAfter(_, _)
StoreAfter(pages, n) ==
    IF n = 0 THEN EmptyStore ELSE WritePage(StoreAfter(pages, n - 1), pages[n])

\* C26: the store is at every moment the outcome of whole pages, those the
\* loader has committed, each written in a transaction of its own; when the
\* loader fails while it writes page k, that is the outcome of pages
\* 1..k-1: their ops and dids stay, and no row that page k would have
\* added to either table is there
C26_PageGranularCommits ==
    /\ pages_written <= Len(sent)
    /\ Store = StoreAfter(sent, pages_written)
    /\ sink_pc = "failed" =>
          /\ pages_written < Len(sent)
          /\ \A op \in Range(sent[pages_written + 1]) :
                /\ op \in operations =>
                      op \in StoreAfter(sent, pages_written).operations
                /\ op.did \in dids =>
                      op.did \in StoreAfter(sent, pages_written).dids

\* the loader committed two pages and failed in the third, whose two ops
\* are of a did the store does not have
C26_Witness ==
    /\ sink_pc = "failed"
    /\ pages_written = 2
    /\ operations # {}
    /\ Len(sent[3]) = 2
    /\ \A op \in Range(sent[3]) : op.did \notin dids

\* ---------------------------------------------------------------- C27
\* a backfill worker's send met a dropped receiver
SendRefused == \E i \in DOMAIN worker_errs : worker_errs[i].why = "send"

\* C27: a backfill worker that sends on the bulk channel after its receiver
\* was dropped ends with that error, the engine returns an error, and main
\* does not end as after a run that went well
C27_ClosedReceiverFailsPipeline ==
    /\ \A i \in DOMAIN worker_errs :
          worker_errs[i].why = "send" =>
              /\ ~BulkRxOpen
              /\ workers[worker_errs[i].worker].pc = "failed"
    /\ SendRefused /\ IsSome(backfill_ret) => ~Unwrap(backfill_ret).ok
    /\ SendRefused => main_pc # "done"

\* the same with main's part for the runs with catch_up only, where main
\* panics on the dropped one-shot sender
ClosedReceiverFailsWithCatchUp ==
    /\ \A i \in DOMAIN worker_errs :
          worker_errs[i].why = "send" =>
              /\ ~BulkRxOpen
              /\ workers[worker_errs[i].worker].pc = "failed"
    /\ SendRefused /\ IsSome(backfill_ret) => ~Unwrap(backfill_ret).ok
    /\ SendRefused /\ notify => main_pc \in {"await_last_at", "panicked"}

\* with catch_up: a worker's send was refused, the engine returned the
\* error and main panicked
ClosedReceiverWitness ==
    /\ notify
    /\ SendRefused
    /\ IsSome(backfill_ret)
    /\ main_pc = "panicked"

\* ---------------------------------------------------------------- C28
\* two of the ops share their (did, cid)
HasDuplicateKey(ops) ==
    \E i, j \in DOMAIN ops : i # j /\ OpKey(ops[i]) = OpKey(ops[j])

\* the steps of backfill_to_pg after a COPY that was accepted
PastCopy == {"create_idx", "dids", "set_logged", "commit", "done"}

\* C28: when two ops that backfill_to_pg received share their (did, cid),
\* it never gets past the end of its COPY: it ends with the error, no row
\* of the load is in either table, and it never returns Ok
C28_DuplicateKeysRejected ==
    HasDuplicateKey(copy_buf) =>
        /\ bulk_pc \notin PastCopy
        /\ operations \subseteq {OldOp}
        /\ dids \subseteq {OldOp.did}
        /\ IsSome(txn) => bulk_pc \in {"copy", "finishing"}

\* the loader received every op of the bundles, two of them with one key,
\* sent last_at and then failed; the tables are empty
C28_Witness ==
    /\ HasDuplicateKey(copy_buf)
    /\ Len(copy_buf) = NumWeeks * BundleLen
    /\ bulk_pc = "failed"
    /\ notifications = 1
    /\ txn = None
    /\ operations = {}

\* ---------------------------------------------------------------- C29
\* no page the poller has put on its channel, or holds for it, is empty
NoEmptyPageSent ==
    /\ \A i \in DOMAIN sent : sent[i] # <<>>
    /\ \A i \in DOMAIN dest : dest[i] # <<>>
    /\ IsSome(pending) => Unwrap(pending).page # <<>>

\* the channel holds the pages sent and not yet received, in the order sent
ChannelInOrder ==
    /\ pages_written <= Len(sent)
    /\ dest = SubSeq(sent, pages_written + 1, Len(sent))

\* C29: an iteration of the poller puts the page left after dedup on the
\* channel when it is not empty, and puts nothing there when it is; with the
\* channel full it keeps the page and waits, fetching nothing, until the
\* page is on the channel (or the receiver is gone); no empty page is ever
\* sent, and the channel hands the sent pages on in the order they were
\* fetched, none missing
C29_PollerForwarding ==
    [][/\ polls' = polls + 1 =>
            LET it == Unwrap(last_iter')
            IN /\ fetched' = Append(fetched, it.raw)
               /\ pending = None
               /\ it.panicked =>
                     sent' = sent /\ dest' = dest /\ pending' = None
               /\ ~it.panicked /\ it.out = <<>> =>
                     /\ sent' = sent /\ dest' = dest /\ pending' = None
                     /\ poller_pc' = "polling"
               /\ ~it.panicked /\ it.out # <<>> /\ dest_rx_open =>
                     IF Len(dest) < dest_cap
                     THEN /\ dest' = Append(dest, it.out)
                          /\ sent' = Append(sent, it.out)
                          /\ pending' = None
                     ELSE /\ IsSome(pending')
                          /\ Unwrap(pending').page = it.out
                          /\ poller_pc' = "awaiting_send"
                          /\ sent' = sent /\ dest' = dest
       /\ IsSome(pending) =>
            /\ polls' = polls /\ fetched' = fetched
            /\ pending' # pending =>
                  /\ pending' = None
                  /\ \/ /\ sent' = Append(sent, Unwrap(pending).page)
                        /\ dest' = Append(dest, Unwrap(pending).page)
                     \/ ~dest_rx_open /\ poller_pc' = "failed"
       /\ polls' = polls /\ pending = None => sent' = sent
       /\ NoEmptyPageSent'
       /\ ChannelInOrder'
      ]_vars

\* the first page is on the channel, the second was left empty by dedup and
\* was not sent, and the poller waits with the third for room on the channel
C29_Witness ==
    /\ Len(fetched) = 3
    /\ fetched[2] # <<>>
    /\ Len(sent) = 1
    /\ dest = <<sent[1]>>
    /\ poller_pc = "awaiting_send"
    /\ IsSome(pending)
    /\ Unwrap(pending).page # <<>>

\* ---------------------------------------------------------------- C30
\* the fetched pages with at least one op
NonEmptyFetched(pages) == {i \in DOMAIN pages : pages[i] # <<>>}

\* the createdAt of the last op of the latest of them
ResumePoint(pages) ==
    LET i == CHOOSE k \in NonEmptyFetched(pages) :
                 \A j \in NonEmptyFetched(pages) : j <= k
    IN Last(pages[i]).created_at

\* C30: whenever the poller is about to make a request, the `after` of that
\* request is the createdAt of the last op of the latest fetched page that
\* had an op, as fetched; as long as no fetched page had an op it stays what
\* it was at the start, the `after` argument or no parameter; an empty page
\* leaves it as it was; and it never decreases or goes back to no parameter
C30_ResumePoint ==
    [][/\ poller_pc' = "polling" /\ NonEmptyFetched(fetched') # {} =>
            RequestAfter(prev_last') = Some(ResumePoint(fetched'))
       /\ NonEmptyFetched(fetched') = {} => prev_last' = prev_last
       /\ polls' = polls + 1 /\ Unwrap(last_iter').raw = <<>> =>
            prev_last' = prev_last
       /\ IsSome(prev_last) =>
            /\ IsSome(prev_last')
            /\ Unwrap(prev_last').created_at >= Unwrap(prev_last).created_at
      ]_vars

\* three requests: the first page was empty, the second had ops at a time
\* after the `after` argument, the third was empty again; the next request
\* resumes from the second page
C30_Witness ==
    /\ Len(fetched) = 3
    /\ fetched[1] = <<>>
    /\ fetched[2] # <<>>
    /\ fetched[3] = <<>>
    /\ poller_pc = "polling"
    /\ RequestAfter(prev_last) = Some(Last(fetched[2]).created_at)
    /\ Last(fetched[2]).created_at > 1

\* ---------------------------------------------------------------- C31
\* the ops of the well-formed lines of a body, in the order of the lines
RECURSIVE OpsOfLines(_)
OpsOfLines(body) ==
    IF body = <<>> THEN <<>>
    ELSE (IF Head(body).kind = "op" THEN Head(body).op ELSE <<>>)
             \o OpsOfLines(Tail(body))

HasMalformed(body) == \E i \in 1..Len(body) : body[i].kind # "op"

\* C31: the page get_page hands to dedup holds exactly the ops of the
\* well-formed lines of the body, in their order; an iteration over a body
\* with blank or malformed lines leaves the poller running, and the next
\* iteration resumes from that page as from any other
C31_MalformedLinesSkipped ==
    [][/\ Len(fetched') = Len(bodies')
       /\ \A i \in 1..Len(bodies') : fetched'[i] = OpsOfLines(bodies'[i])
       /\ polls' = polls + 1 /\ HasMalformed(Last(bodies')) =>
             /\ Unwrap(last_iter').raw = OpsOfLines(Last(bodies'))
             /\ ~Unwrap(last_iter').panicked
             /\ poller_pc' \in {"polling", "awaiting_send"}
             /\ poller_pc' = "polling" /\ OpsOfLines(Last(bodies')) # <<>> =>
                   RequestAfter(prev_last') =
                       Some(Last(OpsOfLines(Last(bodies'))).created_at)
      ]_vars

\* the first body had two ops between malformed and blank lines, both ops
\* were sent on, and the poller has fetched a later page with ops
C31_Witness ==
    /\ Len(bodies) = 2
    /\ Len(bodies[1]) = 8
    /\ bodies[1][1].kind = "junk"
    /\ bodies[1][2].kind = "blank"
    /\ bodies[1][3].kind = "op"
    /\ bodies[1][6].kind = "op"
    /\ sent[1] = <<Unwrap(bodies[1][3].op), Unwrap(bodies[1][6].op)>>
    /\ fetched[2] # <<>>
    /\ poller_pc = "polling"

\* ---------------------------------------------------------------- C32
\* C32: an iteration whose page is empty, or is left empty by dedup, leaves
\* last_at and keys_at as they were; as long as every page was empty there
\* is no state, and the first page with an op makes one, at the time of
\* its last op
C32_StateFrameOnEmpty ==
    [][polls' = polls + 1 =>
          LET it == Unwrap(last_iter')
          IN /\ IsSome(boundary_state) /\ it.out = <<>> =>
                   boundary_state' = boundary_state
             /\ boundary_state = None /\ it.raw = <<>> =>
                   boundary_state' = None
             /\ boundary_state = None /\ it.raw # <<>> =>
                   /\ IsSome(boundary_state')
                   /\ Unwrap(boundary_state').last_at = Last(it.raw).created_at
      ]_vars

\* the whole second page was dropped as duplicates of the boundary and the
\* state is what the first page left
C32_Witness ==
    /\ IsSome(last_iter)
    /\ Unwrap(last_iter).raw # <<>>
    /\ Unwrap(last_iter).out = <<>>
    /\ IsSome(Unwrap(last_iter).pre)
    /\ boundary_state = Unwrap(last_iter).pre
    /\ Len(Unwrap(boundary_state).keys_at) > 0

\* the first page was empty and the state comes from the second
StateFromFirstNonEmptyWitness ==
    /\ Len(fetched) = 2
    /\ fetched[1] = <<>>
    /\ fetched[2] # <<>>
    /\ IsSome(boundary_state)
    /\ Unwrap(last_iter).pre = None

\* ---------------------------------------------------------------- C33
\* the keys of the ops of a page at time t
KeysOfAt(page, t) ==
    {OpKey(page[i]) : i \in {j \in 1..Len(page) : page[j].created_at = t}}

\* keys_at holds, each once, the keys of the ops fetched so far at last_at
KeysAtExact(st, pages) ==
    /\ Cardinality(Range(st.keys_at)) = Len(st.keys_at)
    /\ Range(st.keys_at) = KeysOfAt(Flatten(pages), st.last_at)
    /\ \A op \in Range(Flatten(pages)) : op.created_at <= st.last_at

\* C33: against an upstream that keeps its contract, keys_at is at every
\* moment the set of the keys of all ops fetched so far whose createdAt is
\* last_at, no key twice; a page that ends later than last_at replaces the
\* keys with those of its ops at its last timestamp, a page that ends at
\* last_at adds the keys of the ops dedup left of it
C33_KeysAtInvariant ==
    [][/\ IsSome(boundary_state') =>
             KeysAtExact(Unwrap(boundary_state'), fetched')
       /\ polls' = polls + 1 /\ IsSome(boundary_state) =>
             LET it == Unwrap(last_iter')
                 pre == Unwrap(boundary_state)
                 post == Unwrap(boundary_state')
             IN /\ ~it.panicked
                /\ it.out # <<>> /\ Last(it.out).created_at > pre.last_at =>
                      /\ post.last_at = Last(it.out).created_at
                      /\ Range(post.keys_at) = KeysOfAt(it.raw, post.last_at)
                /\ it.out # <<>> /\ Last(it.out).created_at = pre.last_at =>
                      /\ post.last_at = pre.last_at
                      /\ Range(post.keys_at) =
                            Range(pre.keys_at) \cup
                            {OpKey(it.out[i]) : i \in 1..Len(it.out)}
                      /\ Len(post.keys_at) = Len(pre.keys_at) + Len(it.out)
      ]_vars

\* three pages ended at the same time, each with an op the earlier ones did
\* not have, and keys_at holds the three keys
C33_Witness ==
    /\ Len(fetched) = 3
    /\ IsSome(boundary_state)
    /\ Len(Unwrap(boundary_state).keys_at) = 3
    /\ \A i \in 1..3 :
          /\ fetched[i] # <<>>
          /\ Last(fetched[i]).created_at = Unwrap(boundary_state).last_at
    /\ Len(fetched[1]) = 1
    /\ Len(Unwrap(last_iter).out) = 1
    /\ Len(Unwrap(last_iter).raw) > 1

\* ---------------------------------------------------------------- C34
\* the index of the first op of page whose createdAt is not t, or one past
\* the end
FirstNotAt(page, t) ==
    LET later == {i \in 1..Len(page) : page[i].created_at # t}
    IN IF later = {} THEN Len(page) + 1
       ELSE CHOOSE i \in later : \A j \in later : i <= j

\* C34: of a page, apply_to_next removes only ops that stand before the
\* first op whose createdAt is not last_at, and only ones whose key is in
\* keys_at; from that op on the page is left as it was, ops at a later time
\* whose key is in keys_at and ops at last_at behind them included
C34_DedupFrame ==
    [][polls' = polls + 1 /\ IsSome(boundary_state) =>
          LET it == Unwrap(last_iter')
              pre == Unwrap(boundary_state)
              f == FirstNotAt(it.raw, pre.last_at)
              rest == SubSeq(it.raw, f, Len(it.raw))
              kept == Len(it.out) - Len(rest)
          IN /\ kept >= 0
             /\ SubSeq(it.out, kept + 1, Len(it.out)) = rest
             /\ IsSubsequence(SubSeq(it.out, 1, kept),
                              SubSeq(it.raw, 1, f - 1))
             /\ \A i \in 1..(f - 1) :
                   OpKey(it.raw[i]) \notin Range(pre.keys_at) =>
                       \E j \in 1..kept : it.out[j] = it.raw[i]
             /\ \A j \in 1..kept : OpKey(it.out[j]) \notin Range(pre.keys_at)
      ]_vars

\* the page began with an op of the boundary, which was removed; behind it
\* stood an op at a later time and one at last_at, both with keys of
\* keys_at, and both are still there
C34_Witness ==
    /\ Len(fetched) = 2
    /\ IsSome(last_iter)
    /\ IsSome(Unwrap(last_iter).pre)
    /\ LET it == Unwrap(last_iter)
           pre == Unwrap(it.pre)
       IN /\ Len(it.raw) = 3
          /\ Len(it.out) = 2
          /\ it.raw[1].created_at = pre.last_at
          /\ it.raw[2].created_at > pre.last_at
          /\ OpKey(it.raw[2]) \in Range(pre.keys_at)
          /\ it.raw[3].created_at = pre.last_at
          /\ OpKey(it.raw[3]) \in Range(pre.keys_at)
          /\ it.out = <<it.raw[2], it.raw[3]>>

\* ---------------------------------------------------------------- C35
\* the upstream has answered the poller with a page of fewer than 900 ops
CaughtUp == \E i \in 1..Len(fetched) : small_page(Len(fetched[i]))

\* the poller has put a page of fewer than 900 ops on its channel
SmallPageSent == \E i \in 1..Len(sent) : small_page(Len(sent[i]))

\* the filter has returned Ok, its output channel is closed and drained, and
\* the sink has ended with every forwarded page committed
CatchUpDone ==
    /\ filter_pc = "ok"
    /\ fwd = <<>>
    /\ sink_pc = "done"
    /\ pages_written = Len(forwarded)
    /\ \A op \in OpsOf(forwarded) : OpKey(op) \in StoredKeys

CatchUpEndsAfterSmallPageSent == SmallPageSent ~> CatchUpDone

\* ---------------------------------------------------------------- C36
\* the bulk writer task has ended
BulkWriterEnded == bulk_pc \in {"done", "printed", "failed", "panicked"}

\* C36: the filter and the steady-state sink run only once the bulk writer
\* task has ended with its transaction committed; until then no page has left
\* the catch-up channel, which holds every page the poller has sent, within
\* its capacity, and the store holds no row a steady-state insert made; the
\* first steady-state page is written onto the committed bulk load
C36_CatchUpWritesFollowBulkCommit ==
    /\ filter_pc # "idle" \/ sink_pc # "idle" =>
          /\ bulk_pc = "done"
          /\ txn = None
          /\ BundleOps \subseteq operations
    /\ ~BulkWriterEnded =>
          /\ filter_pc = "idle" /\ sink_pc = "idle"
          /\ consumed = 0 /\ forwarded = <<>> /\ pages_written = 0
          /\ dest = sent
          /\ Len(dest) <= CATCHUP_CHANNEL_CAP
          /\ operations = {}
          /\ ops_inserted = 0
    /\ pages_written > 0 => BundleOps \subseteq operations

\* the poller has sent two pages while the loader has yet to commit; both
\* wait in the channel and neither the filter nor the sink has been started
C36_Witness ==
    /\ bulk_pc = "commit"
    /\ IsSome(txn)
    /\ Len(sent) = 2
    /\ dest = sent
    /\ filter_pc = "idle"
    /\ sink_pc = "idle"
    /\ main_pc = "await_bulk"

\* ---------------------------------------------------------------- C37
\* the bulk sink has failed or panicked without sending on the one-shot
FailedBeforeLastAt ==
    /\ notify
    /\ bulk_pc \in {"failed", "panicked"}
    /\ notifications = 0

\* C37: when the bulk sink of a run with catch_up fails or panics before it
\* has sent last_at, nothing arrives on the one-shot, no catch-up poller is
\* or ever was started, main is at its await of the one-shot or has
\* panicked there, and main does panic
C37_NoCatchUpAfterFailedBulk ==
    /\ [](FailedBeforeLastAt =>
             /\ rx_last = None
             /\ poller_pc = "idle"
             /\ polls = 0
             /\ main_pc \in {"await_last_at", "panicked"})
    /\ (FailedBeforeLastAt ~> main_pc = "panicked")

\* the loader panicked at its table check, before any page was received;
\* main has panicked and no poller was spawned
C37_Witness ==
    /\ notify
    /\ bulk_pc = "panicked"
    /\ notifications = 0
    /\ rx_last = None
    /\ main_pc = "panicked"
    /\ poller_pc = "idle"

\* the same after an SQL error of the loader
FailedBulkWitness ==
    /\ notify
    /\ bulk_pc = "failed"
    /\ notifications = 0
    /\ main_pc = "panicked"
    /\ poller_pc = "idle"

\* ---------------------------------------------------------------- C38
\* C38: every step of the steady-state loader leaves each row of operations
\* in the table as it is, the only row of its (did, cid), whatever the ops
\* with that key in the pages it writes carry; a row that is new has a key
\* the table did not hold; no row of dids is removed
C38_ExistingRowsUntouched ==
    [][/\ \A r \in operations :
             /\ r \in operations'
             /\ \A q \in operations' : OpKey(q) = OpKey(r) => q = r
       /\ \A q \in operations' \ operations :
             \A r \in operations : OpKey(r) # OpKey(q)
       /\ dids \subseteq dids'
      ]_vars

\* the row of (1, 1) was written by the first page; the third page held two
\* ops of that key, one nullified and one with another body and createdAt,
\* and was committed: the row is the one the first page wrote
C38_Witness ==
    /\ pages_written = 3
    /\ Len(sent) = 3
    /\ sent[1] = <<MkOp(1, 1, 1, FALSE, 1)>>
    /\ sent[3] = <<MkOp(1, 1, 1, TRUE, 1), MkOp(1, 1, 3, FALSE, 4)>>
    /\ operations = {MkOp(1, 1, 1, FALSE, 1)}
    /\ ops_inserted = 1

\* ---------------------------------------------------------------- C39
\* C39: in every committed state of the store, every did of a row of
\* operations is a row of dids, and no two rows of operations share their
\* (did, cid)
C39_DidsCoverOperations ==
    /\ \A r \in operations : r.did \in dids
    /\ Cardinality(StoredKeys) = Cardinality(operations)

\* the bulk load is committed and a catch-up page was committed onto it;
\* some of its ops were in the bundles already and the others are new rows
C39_Witness ==
    /\ bulk_pc = "done"
    /\ pages_written = 1
    /\ ops_inserted > 0
    /\ ops_inserted < Len(forwarded[1])
    /\ Cardinality(operations) = NumWeeks * BundleLen + ops_inserted
    /\ dids = 1..NumDids

\* C40: PageForwarder never sends an empty page: every page on the
\* destination channel has ops.
C40_NoEmptyPageSent ==
    \A i \in 1..Len(pf_dest) : pf_dest[i] # <<>>

\* a page is sent only by a step that has bytes buffered, the page_rest of a
\* split included; a flush or a split with nothing buffered leaves the
\* channel as it was
PageSentOnlyWhenBuffered ==
    [][/\ pf_dest' # pf_dest =>
            /\ Len(pf_dest') = Len(pf_dest) + 1
            /\ \/ pf_bytes # <<>>
               \/ IsSome(pf_buf) /\ Unwrap(pf_buf) # <<>>
                                 /\ Head(Unwrap(pf_buf)) # NL
               \/ IsSome(pf_buf) /\ pf_N - 1 - pf_newlines > 0
       /\ (pf_buf = None /\ pf_bytes = <<>>) => pf_dest' = pf_dest
       /\ (/\ IsSome(pf_buf)
           /\ pf_bytes = <<>>
           /\ NthNewline(Unwrap(pf_buf), pf_N - 1 - pf_newlines) = Some(1))
          => pf_dest' = pf_dest]_vars

\* newlines counts the newlines buffered, so N - 1 - newlines never underflows
NewlinesCounted ==
    /\ pf_newlines = CountNewlines(pf_bytes)
    /\ pf_newlines <= pf_N - 1

\* a flush of a buffer that holds only a newline has sent a page without ops
EmptyPageFlushed ==
    /\ pf_N = 2
    /\ Len(pf_dest) = 2
    /\ pf_dest[1] = <<"{", "}">>
    /\ pf_dest[2] = <<>>
    /\ pf_bytes = <<>>
    /\ pf_buf = None

====
